---------------------------- MODULE Spec2Model ----------------------------
(***************************************************************************)
(* A model of the rum HTTP request multiplexer (src/mux.go): the route     *)
(* table, parameter matching, method dispatch, groups and middleware; and  *)
(* of the rum HTTP server (Rum, in src/rum_test.go): the blocking and the  *)
(* reactor engine, the registry of listeners and reactors, and Close.      *)
(*                                                                         *)
(* Strings are sequences of one-character strings, so that the string      *)
(* functions the code uses (Split, Index, Trim, ReplaceAll, HasPrefix,     *)
(* Count) are computed and not assumed.  Positions are 1-based here and    *)
(* 0-based in Go.                                                          *)
(***************************************************************************)
EXTENDS Integers, Sequences, FiniteSets, TLC

VARIABLES muxes, arrays, entries, reg, setups, nops, call, resp,
          rum, mut, lns, reactors, serves, closes, conns, cbs,
          muts, tasks

\* The variables of the router, those of the server, and those of the
\* locks of the routers.
routerVars == <<muxes, arrays, entries, reg, setups, nops, call, resp>>
serverVars == <<rum, mut, lns, reactors, serves, closes, conns, cbs>>
lockVars == <<muts, tasks>>

vars == <<routerVars, serverVars, lockVars>>

-----------------------------------------------------------------------------
(* Bounds of the model.                                                    *)

\* The number of registration calls (Handle, method selectors, Use,
\* NotFound, Group) a behaviour makes: when every operation and every input
\* is in play, when routes and groups are, and when one pattern and its
\* method selectors are.
MaxOps == 2
MaxRouteOps == 3
MaxMethodOps == 4

\* The number of registration calls when nested groups and routes with a
\* trailing separator are in play.
MaxGroupOps == 3

\* When middleware is in play: the number of Use calls made on the root
\* router before anything else, and the number of registration calls after.
MaxFirstUses == 3
MaxMiddlewareOps == 4

-----------------------------------------------------------------------------
(* Go's strings package, on sequences of characters.                       *)

Slash == "/"
Colon == ":"

\* strings.HasPrefix(s, p)
HasPrefix(s, p) == Len(p) <= Len(s) /\ SubSeq(s, 1, Len(p)) = p

\* strings.Index(s, c) for a one-character c: the first position of c in s,
\* 0 when there is none (Go: 0-based, -1 when there is none).
Index(s, c) ==
    IF \E i \in 1..Len(s) : s[i] = c
    THEN CHOOSE i \in 1..Len(s) : s[i] = c /\ \A j \in 1..(i - 1) : s[j] # c
    ELSE 0

\* strings.Contains(s, sub)
Contains(s, sub) ==
    \E i \in 1..(Len(s) - Len(sub) + 1) : SubSeq(s, i, i + Len(sub) - 1) = sub

\* strings.Count(s, c) for a one-character c
Count(s, c) == Cardinality({i \in 1..Len(s) : s[i] = c})

\* strings.Split(s, c) for a one-character separator c
RECURSIVE Split(_, _)
Split(s, c) ==
    LET i == Index(s, c) IN
    IF i = 0 THEN <<s>>
    ELSE <<SubSeq(s, 1, i - 1)>> \o Split(SubSeq(s, i + 1, Len(s)), c)

\* strings.Trim(s, c) for a one-character cutset c: s without its leading and
\* trailing runs of c.
RECURSIVE Trim(_, _)
Trim(s, c) ==
    IF s = <<>> THEN s
    ELSE IF s[1] = c THEN Trim(Tail(s), c)
    ELSE IF s[Len(s)] = c THEN Trim(SubSeq(s, 1, Len(s) - 1), c)
    ELSE s

\* strings.ReplaceAll(s, "//", "/"): one pass, left to right, over the
\* non-overlapping occurrences.
RECURSIVE ReplaceAll(_)
ReplaceAll(s) ==
    IF Len(s) < 2 THEN s
    ELSE IF s[1] = Slash /\ s[2] = Slash
         THEN <<Slash>> \o ReplaceAll(SubSeq(s, 3, Len(s)))
         ELSE <<s[1]>> \o ReplaceAll(Tail(s))

\* A mutant of replace: a single ReplaceAll pass, without the loop.
replaceOnce(s) == ReplaceAll(s)

\* Mux.replace: ReplaceAll is repeated while a "//" is left.
RECURSIVE replace(_)
replace(s) ==
    IF Contains(s, <<Slash, Slash>>) THEN replace(ReplaceAll(s)) ELSE s


-----------------------------------------------------------------------------
(* Values.                                                                 *)

\* A nil http.Handler, a nil *Entry, and the zero value of a string.
NilHandler == "nil"
NilEntry == 0
Empty == <<>>

\* The method bits of the const block (1 << iota).
options == 1
get == 2
head == 4
post == 8
put == 16
delete == 32
trace == 64
connect == 128
patch == 256

\* entry.method & bit > 0
HasBit(method, bit) == (method \div bit) % 2 = 1

\* entry.method |= bit
OrBit(method, bit) == IF HasBit(method, bit) THEN method ELSE method + bit

\* The errors a registration call panics with.
ErrNone == "nil"
ErrGroupExisted == "Group Existed"
ErrParamsKeyEmpty == "Params key must be not empty"

-----------------------------------------------------------------------------
(* Mux.parseParams.                                                        *)

\* The loop body of parseParams for the segments seg[i..]: acc carries key
\* and the rewritten match.  A segment that contains the marker becomes the
\* parameter named by the segment trimmed of markers; any other segment is
\* literal, is appended to the key, and its match slot is emptied.
RECURSIVE parseSegments(_, _, _)
parseSegments(seg, i, acc) ==
    IF i > Len(seg) THEN acc
    ELSE IF Contains(seg[i], <<Colon>>)
         THEN parseSegments(seg, i + 1,
                [key |-> acc.key \o (IF i > 1 THEN <<Slash, Colon>> ELSE <<Colon>>),
                 match |-> Append(acc.match, Trim(seg[i], Colon)),
                 params |-> acc.params \cup {Trim(seg[i], Colon)}])
         ELSE parseSegments(seg, i + 1,
                [key |-> acc.key \o <<Slash>> \o seg[i],
                 match |-> Append(acc.match, Empty),
                 params |-> acc.params])

\* A mutant of parseParams that never panics.
parseParamsNoPanic(pattern) ==
    IF Contains(pattern, <<Colon>>)
    THEN LET idx == Index(pattern, Colon)
             r == parseSegments(Split(SubSeq(pattern, idx, Len(pattern)), Slash), 1,
                                [key |-> Empty, match |-> <<>>, params |-> {}])
         IN [err |-> ErrNone, prefix |-> SubSeq(pattern, 1, idx - 1),
             key |-> r.key, match |-> r.match, params |-> r.params]
    ELSE [err |-> ErrNone, prefix |-> pattern, key |-> Empty, match |-> <<>>,
          params |-> {}]

\* Mux.parseParams: the literal prefix (all before the first marker), the
\* shape key, the match list (the parameter name of each segment of the
\* remainder, empty for a literal segment) and the parameter names.  It
\* panics with ErrParamsKeyEmpty when the first marker ends the pattern or
\* when a marker is directly followed by a separator.
parseParams(pattern) ==
    IF Contains(pattern, <<Colon>>)
    THEN LET idx == Index(pattern, Colon) IN
         IF idx = Len(pattern) \/ Contains(pattern, <<Colon, Slash>>)
         THEN [err |-> ErrParamsKeyEmpty, prefix |-> Empty, key |-> Empty,
               match |-> <<>>, params |-> {}]
         ELSE LET r == parseSegments(Split(SubSeq(pattern, idx, Len(pattern)), Slash), 1,
                                     [key |-> Empty, match |-> <<>>, params |-> {}])
              IN [err |-> ErrNone, prefix |-> SubSeq(pattern, 1, idx - 1),
                  key |-> r.key, match |-> r.match, params |-> r.params]
    ELSE [err |-> ErrNone, prefix |-> pattern, key |-> Empty, match |-> <<>>,
          params |-> {}]

-----------------------------------------------------------------------------
(* The heap: routers and entries.                                          *)

\* A Go slice is a window on a backing array: the array's address, the
\* length and the capacity.  The nil slice has no array.
NilSlice == [arr |-> 0, len |-> 0, cap |-> 0]

\* NewMux / newGroup: a router with no bucket, no group, no middleware and
\* no not-found handler, rooted at the given group prefix.  (History: used
\* is the sequence of the handlers given to Use on this router, inherited
\* the middleware its parent had when Group stored the router.)
newGroup(group) ==
    [prefixes |-> <<>>, middlewares |-> NilSlice, notFound |-> NilHandler,
     group |-> group, groups |-> <<>>, used |-> <<>>, inherited |-> <<>>]

NewMux == newGroup(Empty)

\* &Entry{} with the four fields Handle sets.
NewEntry(handler, key, match, params) ==
    [handler |-> handler, key |-> key, match |-> match, params |-> params,
     method |-> 0,
     get |-> NilHandler, post |-> NilHandler, put |-> NilHandler,
     delete |-> NilHandler, patch |-> NilHandler, head |-> NilHandler,
     options |-> NilHandler, trace |-> NilHandler, connect |-> NilHandler]

\* The root router is the first router of the heap.
Root == 0

\* A map with one more (or one replaced) binding.
MapPut(f, k, v) == [x \in DOMAIN f \cup {k} |-> IF x = k THEN v ELSE f[x]]

\* The routers whose write lock is held: a Group call holds its router's
\* lock from its first line to its return, its setup procedure included.
Locked == {s.parent : s \in setups}

-----------------------------------------------------------------------------
(* Matching.  Go ranges over a map in an unspecified order, so a loop over *)
(* a map that returns at its first hit can return any of the hits: the     *)
(* operators below give the set of results the loop can produce.           *)

\* The shape key matchParams rebuilds from the segments of the path's
\* remainder, against the match list of one entry.
RECURSIVE matchKey(_, _, _)
matchKey(form, match, i) ==
    IF i > Len(form) THEN Empty
    ELSE (IF match[i] # Empty
          THEN (IF i > 1 THEN <<Slash, Colon>> ELSE <<Colon>>)
          ELSE <<Slash>> \o form[i])
         \o matchKey(form, match, i + 1)

\* What one bucket contributes to matchParams: the bare prefix when the path
\* ends with it, else every entry of the bucket with as many segments as the
\* remainder whose rebuilt key is its own.
bucketHits(mx, pre, path) ==
    LET r == SubSeq(path, Len(pre) + 1, Len(path)) IN
    IF ~HasPrefix(path, pre) THEN {}
    ELSE IF r = Empty THEN {[prefix |-> pre, key |-> Empty, ok |-> TRUE]}
    ELSE {[prefix |-> pre, key |-> entries[e].key, ok |-> TRUE] :
            e \in {mx.prefixes[pre][k] : k \in
                     {k \in DOMAIN mx.prefixes[pre] :
                        LET v == entries[mx.prefixes[pre][k]] IN
                        /\ Count(r, Slash) + 1 = Len(v.match)
                        /\ matchKey(Split(r, Slash), v.match, 1) = v.key}}}

\* A mutant of matchParams that does not compare the rebuilt key: every
\* bucket whose prefix starts the path hits with each of its entries.
matchParamsAnyKey(mx, path) ==
    LET hits == UNION {{[prefix |-> pre, key |-> k, ok |-> TRUE] :
                          k \in DOMAIN mx.prefixes[pre]} :
                       pre \in {q \in DOMAIN mx.prefixes : HasPrefix(path, q)}}
    IN IF hits = {} THEN {[prefix |-> Empty, key |-> Empty, ok |-> FALSE]} ELSE hits

\* Mux.matchParams: the results (prefix, key, ok) the two nested map loops
\* can return for a path.
matchParams(mx, path) ==
    LET hits == UNION {bucketHits(mx, pre, path) : pre \in DOMAIN mx.prefixes}
    IN IF hits = {} THEN {[prefix |-> Empty, key |-> Empty, ok |-> FALSE]} ELSE hits

\* Mux.getHandlerFunc: the entry stored under the (prefix, key) matchParams
\* returned, nil when matchParams failed or the bucket has no such key.
getHandlerFunc(mx, path) ==
    {IF r.ok /\ r.key \in DOMAIN mx.prefixes[r.prefix]
     THEN mx.prefixes[r.prefix][r.key] ELSE NilEntry : r \in matchParams(mx, path)}

\* A mutant of searchEntry that does not descend into the groups.
searchEntryOwnOnly(m, path) == getHandlerFunc(muxes[m], path)

\* Mux.searchEntry: the router's own table first; when that gives nil, the
\* groups in map order, the first one that finds an entry wins.
RECURSIVE searchEntry(_, _)
searchEntry(m, path) ==
    LET own == getHandlerFunc(muxes[m], path)
        gs == {muxes[m].groups[g] : g \in DOMAIN muxes[m].groups}
        found == UNION {searchEntry(c, path) \ {NilEntry} : c \in gs}
        miss == IF \A c \in gs : NilEntry \in searchEntry(c, path)
                THEN {NilEntry} ELSE {}
    IN (own \ {NilEntry}) \cup (IF NilEntry \in own THEN found \cup miss ELSE {})

-----------------------------------------------------------------------------
(* Serving.                                                                *)

\* The request methods serveEntry names, and one it does not.
NamedMethods ==
    {"GET", "POST", "PUT", "DELETE", "PATCH", "HEAD", "OPTIONS", "TRACE", "CONNECT"}

\* What serving does: whether serveHandler ran, the middleware it ran in
\* order, and the handler it invoked (nil: none).
NotServed == [ran |-> FALSE, mws |-> <<>>, handler |-> NilHandler]

\* Mux.middleware: the handlers a range over m.middlewares runs, in order.
middleware(mx) ==
    [i \in 1..mx.middlewares.len |-> arrays[mx.middlewares.arr][i]]

\* Mux.middleware followed by the handler: serveHandler.
serveHandler(mx, handler) ==
    [ran |-> TRUE, mws |-> middleware(mx), handler |-> handler]

\* A mutant of serveEntry that ignores the method set: it serves the
\* entry's current handler whatever the method.
serveEntryUngated(mx, entry, method) == serveHandler(mx, entry.handler)

\* A mutant of serveEntry without the method-agnostic branch: an entry
\* serves only the named methods it has a handler for.
serveEntryGatedOnly(mx, entry, method) ==
    IF method \in {"GET", "POST", "PUT", "DELETE", "PATCH", "HEAD", "OPTIONS",
                   "TRACE", "CONNECT"} /\ entry.method = 0
    THEN serveHandler(mx, entry.handler)
    ELSE NotServed

\* Mux.serveEntry: the if-else chain over entry.method and r.Method.
serveEntry(mx, entry, method) ==
    IF entry.method = 0 THEN serveHandler(mx, entry.handler)
    ELSE IF method = "GET" /\ HasBit(entry.method, get)
         THEN serveHandler(mx, entry.get)
    ELSE IF method = "POST" /\ HasBit(entry.method, post)
         THEN serveHandler(mx, entry.post)
    ELSE IF method = "PUT" /\ HasBit(entry.method, put)
         THEN serveHandler(mx, entry.put)
    ELSE IF method = "DELETE" /\ HasBit(entry.method, delete)
         THEN serveHandler(mx, entry.delete)
    ELSE IF method = "PATCH" /\ HasBit(entry.method, patch)
         THEN serveHandler(mx, entry.patch)
    ELSE IF method = "HEAD" /\ HasBit(entry.method, head)
         THEN serveHandler(mx, entry.head)
    ELSE IF method = "OPTIONS" /\ HasBit(entry.method, options)
         THEN serveHandler(mx, entry.options)
    ELSE IF method = "TRACE" /\ HasBit(entry.method, trace)
         THEN serveHandler(mx, entry.trace)
    ELSE IF method = "CONNECT" /\ HasBit(entry.method, connect)
         THEN serveHandler(mx, entry.connect)
    ELSE NotServed

\* The assignments params[entry.match[i]] = strs[i] of Params, in order: a
\* name that occurs twice keeps the segment of its last occurrence.
paramsOf(match, strs) ==
    [n \in {match[i] : i \in {j \in 1..Len(match) : match[j] # Empty}} |->
        strs[CHOOSE i \in 1..Len(match) :
               match[i] = n /\ \A j \in (i + 1)..Len(match) : match[j] # n]]

\* Mux.Params: the name/value mappings the call can return for a request
\* path (one for each result matchParams can give).
Params(mx, rawpath) ==
    LET path == replace(rawpath) IN
    {IF /\ r.ok
        /\ r.key \in DOMAIN mx.prefixes[r.prefix]
        /\ Len(entries[mx.prefixes[r.prefix][r.key]].match) > 0
        /\ Len(path) > Len(r.prefix)
        /\ Len(Split(SubSeq(path, Len(r.prefix) + 1, Len(path)), Slash))
             = Len(entries[mx.prefixes[r.prefix][r.key]].match)
     THEN paramsOf(entries[mx.prefixes[r.prefix][r.key]].match,
                   Split(SubSeq(path, Len(r.prefix) + 1, Len(path)), Slash))
     ELSE <<>> : r \in matchParams(mx, path)}

-----------------------------------------------------------------------------
(* Inputs.                                                                 *)

\* The patterns registered: literal, with duplicate separators, with one
\* and two parameters, with a repeated name, with empty names, and with a
\* literal segment after a parameter.
Patterns ==
    {<<"/", "a">>,
     <<"/", "/", "a">>,
     <<"/", "a", "/", ":", "k">>,
     <<"/", ":", "k", "/", ":", "v">>,
     <<"/", ":", "k", "/", ":", "k">>,
     <<"/", ":">>,
     <<"/", ":", "/", "a">>,
     <<"/", ":", "k", "/", ":">>,
     <<"/", "a", "/", ":", "k", "/", "b">>}

\* The prefixes groups are defined at: literal, with a duplicate separator,
\* and with a parameter.
GroupPrefixes == {<<"/", "g">>, <<"/", "/", "g">>, <<"/", ":", "v">>}

\* The request paths dispatched.
Paths ==
    {<<"/", "a">>,
     <<"/", "/", "/", "a">>,
     <<"/", "a", "/">>,
     <<"/", "a", "/", "b">>,
     <<"/", "a", "/", "/", "b">>,
     <<"/", "a", "/", "b", "/", "b">>,
     <<"/", "b">>,
     <<"/", "g", "/", "a">>,
     <<"/", "g", "/", "a", "/", "b">>}

\* The request methods dispatched: the nine named ones and one other.
Methods == NamedMethods \cup {"PROPFIND"}

\* The handlers registered with Handle, with Use and with NotFound.
Handlers == {"h1", "h2"}
Middlewares == {"mw1", "mw2"}
NotFoundHandlers == {"nf"}

-----------------------------------------------------------------------------
(* The state.                                                              *)
(*   muxes    the routers allocated so far, by address 0, 1, ...           *)
(*   arrays   the backing arrays of the middleware slices allocated so     *)
(*            far, by address 1, 2, ...; each as long as its capacity      *)
(*   entries  the entries allocated so far, by address 1, 2, ...           *)
(*   reg      for each entry, the history of its registration: the         *)
(*            template it was last registered with (the string Handle      *)
(*            hands to parseParams), the handler of that registration, the *)
(*            number of registrations, and for each method whose selector  *)
(*            was applied the handler and the registration current then    *)
(*   setups   the Group calls whose setup procedure is running             *)
(*   nops     the number of registration calls made                        *)
(*   call     the last registration call and what it returned              *)
(*   resp     the request being served and the response to it, until the   *)
(*            client has taken it                                          *)
(*   muts     Mux.mut of the root and of the group's router: the task that *)
(*            holds the write lock and the tasks that hold the read lock   *)
(*   tasks    the concurrent calls of the Mux API, each with the router it *)
(*            is called on and the place it has reached                    *)

\* New: a server with its built-in router, no external handler, the full
\* decoder and the blocking engine, and empty registries.
New ==
    [Handler |-> NilHandler, fast |-> FALSE, poll |-> FALSE,
     listeners |-> <<>>, pollers |-> <<>>]

\* Rum.mut when no call holds it.
Free == 0

\* The routers whose locks are followed: the root, and the router a Group
\* call on the root allocates.
Grp == 1
LockRouters == {Root, Grp}

\* A sync.RWMutex that no task holds.
Unlocked == [writer |-> Free, readers |-> {}]

NoCall ==
    [op |-> "none", mux |-> Root, arg |-> Empty, handler |-> NilHandler,
     err |-> ErrNone, entry |-> NilEntry]

NoResp ==
    [op |-> "none", mux |-> Root, path |-> Empty, method |-> "",
     entry |-> NilEntry, ran |-> FALSE, mws |-> <<>>, handler |-> NilHandler,
     params |-> <<>>, kind |-> "", status |-> 0, body |-> Empty]

Init ==
    /\ muxes = [m \in {Root} |-> NewMux]
    /\ arrays = <<>>
    /\ entries = <<>>
    /\ reg = <<>>
    /\ setups = {}
    /\ nops = 0
    /\ call = NoCall
    /\ resp = NoResp
    /\ rum = New
    /\ mut = Free
    /\ lns = <<>>
    /\ reactors = <<>>
    /\ serves = <<>>
    /\ closes = <<>>
    /\ conns = <<>>
    /\ cbs = <<>>
    /\ muts = [m \in LockRouters |-> Unlocked]
    /\ tasks = <<>>

\* The routers a dispatch on m can descend into, m included.
RECURSIVE Reach(_)
Reach(m) == {m} \cup UNION {Reach(muxes[m].groups[g]) : g \in DOMAIN muxes[m].groups}

\* The routers a caller holds: those reachable from the root and those a
\* running setup procedure is populating.
Usable == Reach(Root) \cup UNION {Reach(s.child) : s \in setups}

\* The router whose table holds entry e.
OwnerOf(e) ==
    CHOOSE m \in DOMAIN muxes :
        \E pre \in DOMAIN muxes[m].prefixes :
            \E k \in DOMAIN muxes[m].prefixes[pre] : muxes[m].prefixes[pre][k] = e

\* The entries stored in router m's table.
EntriesOf(m) ==
    UNION {{muxes[m].prefixes[pre][k] : k \in DOMAIN muxes[m].prefixes[pre]} :
           pre \in DOMAIN muxes[m].prefixes}

-----------------------------------------------------------------------------
(* Registration.                                                           *)

\* A mutant of Handle that allocates a new entry on every call, leaving the
\* method set and the per-method handlers of a re-registered pattern behind.
HandleResultFresh(m, pattern, handler) ==
    LET pp == parseParams(muxes[m].group \o replace(pattern))
        e == Len(entries) + 1
        bucket == IF pp.prefix \in DOMAIN muxes[m].prefixes
                  THEN muxes[m].prefixes[pp.prefix] ELSE <<>>
    IN IF pp.err # ErrNone
       THEN [muxes |-> muxes, entries |-> entries, err |-> pp.err,
             entry |-> NilEntry]
       ELSE [muxes |-> [muxes EXCEPT ![m].prefixes =
                          MapPut(@, pp.prefix, MapPut(bucket, pp.key, e))],
             entries |-> Append(entries, NewEntry(handler, pp.key, pp.match, pp.params)),
             err |-> ErrNone, entry |-> e]

\* A mutant of Handle that leaves the router's group prefix out of the
\* pattern it parses.
HandleResultNoGroup(m, pattern, handler) ==
    LET pp == parseParams(replace(pattern))
        known == /\ pp.prefix \in DOMAIN muxes[m].prefixes
                 /\ pp.key \in DOMAIN muxes[m].prefixes[pp.prefix]
        e == IF known THEN muxes[m].prefixes[pp.prefix][pp.key] ELSE Len(entries) + 1
        bucket == IF pp.prefix \in DOMAIN muxes[m].prefixes
                  THEN muxes[m].prefixes[pp.prefix] ELSE <<>>
    IN IF pp.err # ErrNone
       THEN [muxes |-> muxes, entries |-> entries, err |-> pp.err,
             entry |-> NilEntry]
       ELSE [muxes |-> [muxes EXCEPT ![m].prefixes =
                          MapPut(@, pp.prefix, MapPut(bucket, pp.key, e))],
             entries |-> IF known
                         THEN [entries EXCEPT ![e].handler = handler,
                                              ![e].key = pp.key,
                                              ![e].match = pp.match,
                                              ![e].params = pp.params]
                         ELSE Append(entries,
                                     NewEntry(handler, pp.key, pp.match, pp.params)),
             err |-> ErrNone, entry |-> e]

\* A mutant of Handle under which a re-registration also replaces the
\* handlers the entry holds for its methods.
HandleResultRefresh(m, pattern, handler) ==
    LET pp == parseParams(muxes[m].group \o replace(pattern))
        known == /\ pp.prefix \in DOMAIN muxes[m].prefixes
                 /\ pp.key \in DOMAIN muxes[m].prefixes[pp.prefix]
        e == IF known THEN muxes[m].prefixes[pp.prefix][pp.key] ELSE Len(entries) + 1
        bucket == IF pp.prefix \in DOMAIN muxes[m].prefixes
                  THEN muxes[m].prefixes[pp.prefix] ELSE <<>>
        fresh == NewEntry(handler, pp.key, pp.match, pp.params)
    IN IF pp.err # ErrNone
       THEN [muxes |-> muxes, entries |-> entries, err |-> pp.err,
             entry |-> NilEntry]
       ELSE [muxes |-> [muxes EXCEPT ![m].prefixes =
                          MapPut(@, pp.prefix, MapPut(bucket, pp.key, e))],
             entries |-> IF known
                         THEN [entries EXCEPT ![e] =
                                 [f \in DOMAIN fresh |->
                                    IF f = "method" THEN entries[e].method
                                    ELSE IF f \in {"handler", "key", "match", "params"}
                                    THEN fresh[f]
                                    ELSE IF entries[e][f] = NilHandler THEN NilHandler
                                    ELSE handler]]
                         ELSE Append(entries, fresh),
             err |-> ErrNone, entry |-> e]

\* Mux.Handle: the pattern is normalized and parsed behind the router's
\* group prefix; an entry already stored under (prefix, key) has its
\* handler, key, match and params overwritten in place, else a new entry is
\* stored, in a new bucket when the prefix is new.  A panic of parseParams
\* leaves the router as it was.
HandleResult(m, pattern, handler) ==
    LET pp == parseParams(muxes[m].group \o replace(pattern))
        known == /\ pp.prefix \in DOMAIN muxes[m].prefixes
                 /\ pp.key \in DOMAIN muxes[m].prefixes[pp.prefix]
        e == IF known THEN muxes[m].prefixes[pp.prefix][pp.key] ELSE Len(entries) + 1
        bucket == IF pp.prefix \in DOMAIN muxes[m].prefixes
                  THEN muxes[m].prefixes[pp.prefix] ELSE <<>>
    IN IF pp.err # ErrNone
       THEN [muxes |-> muxes, entries |-> entries, err |-> pp.err,
             entry |-> NilEntry]
       ELSE [muxes |-> [muxes EXCEPT ![m].prefixes =
                          MapPut(@, pp.prefix, MapPut(bucket, pp.key, e))],
             entries |-> IF known
                         THEN [entries EXCEPT ![e].handler = handler,
                                              ![e].key = pp.key,
                                              ![e].match = pp.match,
                                              ![e].params = pp.params]
                         ELSE Append(entries,
                                     NewEntry(handler, pp.key, pp.match, pp.params)),
             err |-> ErrNone, entry |-> e]

\* The history of an entry after a registration with template t.
Registered(e, t, handler) ==
    IF e \in DOMAIN reg
    THEN [reg EXCEPT ![e] = [@ EXCEPT !.tmpl = t, !.handler = handler, !.gen = @ + 1]]
    ELSE Append(reg, [tmpl |-> t, handler |-> handler, gen |-> 1, methods |-> <<>>])

\* Handle / HandleFunc on router m.
Handle(m, pattern, handler) ==
    /\ m \in Usable \ Locked
    /\ LET r == HandleResult(m, pattern, handler) IN
       /\ muxes' = r.muxes
       /\ entries' = r.entries
       /\ reg' = IF r.err # ErrNone THEN reg
                 ELSE Registered(r.entry, muxes[m].group \o replace(pattern), handler)
       /\ call' = [NoCall EXCEPT !.op = "Handle", !.mux = m, !.arg = pattern,
                                 !.handler = handler, !.err = r.err,
                                 !.entry = r.entry]
    /\ nops' = nops + 1
    /\ UNCHANGED <<arrays, setups, resp>>
    /\ UNCHANGED serverVars
    /\ UNCHANGED lockVars

-----------------------------------------------------------------------------
(* The method selectors of an entry.  They take no lock and act on the     *)
(* entry handle Handle returned, whenever the caller applies them.         *)

\* Entry.GET: entry.method |= get; entry.get = entry.handler
setGET(entry) ==
    [entry EXCEPT !.method = OrBit(@, get), !.get = entry.handler]

\* Entry.POST: entry.method |= post; entry.post = entry.handler
setPOST(entry) ==
    [entry EXCEPT !.method = OrBit(@, post), !.post = entry.handler]

\* Entry.PUT: entry.method |= put; entry.put = entry.handler
setPUT(entry) ==
    [entry EXCEPT !.method = OrBit(@, put), !.put = entry.handler]

\* Entry.DELETE: entry.method |= delete; entry.delete = entry.handler
setDELETE(entry) ==
    [entry EXCEPT !.method = OrBit(@, delete), !.delete = entry.handler]

\* Entry.PATCH: entry.method |= patch; entry.patch = entry.handler
setPATCH(entry) ==
    [entry EXCEPT !.method = OrBit(@, patch), !.patch = entry.handler]

\* Entry.HEAD: entry.method |= head; entry.head = entry.handler
setHEAD(entry) ==
    [entry EXCEPT !.method = OrBit(@, head), !.head = entry.handler]

\* Entry.OPTIONS: entry.method |= options; entry.options = entry.handler
setOPTIONS(entry) ==
    [entry EXCEPT !.method = OrBit(@, options), !.options = entry.handler]

\* Entry.TRACE: entry.method |= trace; entry.trace = entry.handler
setTRACE(entry) ==
    [entry EXCEPT !.method = OrBit(@, trace), !.trace = entry.handler]

\* Entry.CONNECT: entry.method |= connect; entry.connect = entry.handler
setCONNECT(entry) ==
    [entry EXCEPT !.method = OrBit(@, connect), !.connect = entry.handler]

\* Entry.All: the nine selectors, in the order of the code.
setAll(entry) ==
    setCONNECT(setTRACE(setDELETE(setPATCH(setPUT(
        setOPTIONS(setHEAD(setPOST(setGET(entry)))))))))

\* A selector call on entry e: the entry it leaves, the methods it was
\* applied for, and the call it records.
Selected(e, name, entry, methods) ==
    /\ e \in DOMAIN entries
    /\ entries' = [entries EXCEPT ![e] = entry]
    /\ reg' = [reg EXCEPT ![e].methods =
                 [x \in DOMAIN @ \cup methods |->
                    IF x \in methods
                    THEN [handler |-> reg[e].handler, gen |-> reg[e].gen]
                    ELSE @[x]]]
    /\ call' = [NoCall EXCEPT !.op = name, !.entry = e]
    /\ nops' = nops + 1
    /\ UNCHANGED <<muxes, arrays, setups, resp>>
    /\ UNCHANGED serverVars
    /\ UNCHANGED lockVars

GET(e) == Selected(e, "GET", setGET(entries[e]), {"GET"})

POST(e) == Selected(e, "POST", setPOST(entries[e]), {"POST"})

PUT(e) == Selected(e, "PUT", setPUT(entries[e]), {"PUT"})

DELETE(e) == Selected(e, "DELETE", setDELETE(entries[e]), {"DELETE"})

PATCH(e) == Selected(e, "PATCH", setPATCH(entries[e]), {"PATCH"})

HEAD(e) == Selected(e, "HEAD", setHEAD(entries[e]), {"HEAD"})

OPTIONS(e) == Selected(e, "OPTIONS", setOPTIONS(entries[e]), {"OPTIONS"})

TRACE(e) == Selected(e, "TRACE", setTRACE(entries[e]), {"TRACE"})

CONNECT(e) == Selected(e, "CONNECT", setCONNECT(entries[e]), {"CONNECT"})

All(e) == Selected(e, "All", setAll(entries[e]), NamedMethods)

-----------------------------------------------------------------------------
(* Groups, middleware and the not-found handler.                           *)

\* A mutant of Group that stores the new router before the setup procedure
\* is called.
GroupBeginStored(m, group) ==
    /\ m \in Usable \ Locked
    /\ LET c == Cardinality(DOMAIN muxes) IN
       /\ muxes' = [MapPut(muxes, c, newGroup(replace(group)))
                      EXCEPT ![m].groups = MapPut(@, replace(group), c)]
       /\ setups' = setups \cup {[parent |-> m, group |-> replace(group), child |-> c]}
       /\ call' = [NoCall EXCEPT !.op = "GroupBegin", !.mux = m, !.arg = group]
    /\ nops' = nops + 1
    /\ UNCHANGED <<arrays, entries, reg, resp>>
    /\ UNCHANGED serverVars
    /\ UNCHANGED lockVars

\* Mux.Group up to the call of the setup procedure: the write lock is
\* taken, the prefix normalized and the new router allocated; the setup
\* procedure then registers on the new router with calls of its own.
GroupBegin(m, group) ==
    /\ m \in Usable \ Locked
    /\ LET c == Cardinality(DOMAIN muxes) IN
       /\ muxes' = MapPut(muxes, c, newGroup(replace(group)))
       /\ setups' = setups \cup {[parent |-> m, group |-> replace(group), child |-> c]}
       /\ call' = [NoCall EXCEPT !.op = "GroupBegin", !.mux = m, !.arg = group]
    /\ nops' = nops + 1
    /\ UNCHANGED <<arrays, entries, reg, resp>>
    /\ UNCHANGED serverVars
    /\ UNCHANGED lockVars

\* A mutant of the end of Group that stores the new router without looking
\* for an existing group.
GroupEndResultNoCheck(s) ==
    [muxes |-> [muxes EXCEPT ![s.child].middlewares = muxes[s.parent].middlewares,
                             ![s.child].inherited = middleware(muxes[s.parent]),
                             ![s.parent].groups = MapPut(@, s.group, s.child)],
     err |-> ErrNone]

\* Mux.Group once the setup procedure has returned: a panic with
\* ErrGroupExisted when the prefix has a group, else the new router gets the
\* parent's middleware and is stored under the prefix.
GroupEndResult(s) ==
    IF s.group \in DOMAIN muxes[s.parent].groups
    THEN [muxes |-> muxes, err |-> ErrGroupExisted]
    ELSE [muxes |-> [muxes EXCEPT ![s.child].middlewares = muxes[s.parent].middlewares,
                                  ![s.child].inherited = middleware(muxes[s.parent]),
                                  ![s.parent].groups = MapPut(@, s.group, s.child)],
          err |-> ErrNone]

\* The return of a Group call (normal or by panic): the lock is released.
GroupEnd(s) ==
    /\ s \in setups
    /\ LET r == GroupEndResult(s) IN
       /\ muxes' = r.muxes
       /\ call' = [NoCall EXCEPT !.op = "Group", !.mux = s.parent, !.arg = s.group,
                                 !.err = r.err]
    /\ setups' = setups \ {s}
    /\ UNCHANGED <<arrays, entries, reg, nops, resp>>
    /\ UNCHANGED serverVars
    /\ UNCHANGED lockVars

\* Mux.NotFound
NotFound(m, handler) ==
    /\ m \in Usable \ Locked
    /\ muxes' = [muxes EXCEPT ![m].notFound = handler]
    /\ call' = [NoCall EXCEPT !.op = "NotFound", !.mux = m, !.handler = handler]
    /\ nops' = nops + 1
    /\ UNCHANGED <<arrays, entries, reg, setups, resp>>
    /\ UNCHANGED serverVars
    /\ UNCHANGED lockVars

\* Go's append of one element: within the capacity the element is written
\* into the slice's own backing array, next to its last one; beyond it a new
\* array of twice the capacity takes a copy of the elements and the new one.
\* (as is the array store; the result is the slice and the store after.)
append(as, slice, handler) ==
    IF slice.len < slice.cap
    THEN [slice |-> [slice EXCEPT !.len = @ + 1],
          arrays |-> [as EXCEPT ![slice.arr][slice.len + 1] = handler]]
    ELSE LET newcap == IF slice.cap = 0 THEN 1 ELSE 2 * slice.cap IN
         [slice |-> [arr |-> Len(as) + 1, len |-> slice.len + 1, cap |-> newcap],
          arrays |-> Append(as,
                       [i \in 1..newcap |->
                          IF i <= slice.len THEN as[slice.arr][i]
                          ELSE IF i = slice.len + 1 THEN handler
                          ELSE NilHandler])]

\* m.middlewares = append(m.middlewares, handler) on router record mx.
\* (History: the handler is added to used.)
UseResult(as, mx, handler) ==
    LET r == append(as, mx.middlewares, handler) IN
    [mux |-> [mx EXCEPT !.middlewares = r.slice, !.used = Append(@, handler)],
     arrays |-> r.arrays]

\* Mux.Use
Use(m, handler) ==
    /\ m \in Usable \ Locked
    /\ LET r == UseResult(arrays, muxes[m], handler) IN
       /\ muxes' = [muxes EXCEPT ![m] = r.mux]
       /\ arrays' = r.arrays
    /\ call' = [NoCall EXCEPT !.op = "Use", !.mux = m, !.handler = handler]
    /\ nops' = nops + 1
    /\ UNCHANGED <<entries, reg, setups, resp>>
    /\ UNCHANGED serverVars
    /\ UNCHANGED lockVars

-----------------------------------------------------------------------------
(* Dispatch.                                                               *)

\* http.StatusNotFound
StatusNotFound == 404

\* The text http.Error is given before the request URL.
NotFoundText == <<"404 Not Found : ">>

\* Mux.ServeHTTP on router m: the responses the call can give.  The path is
\* normalized and looked up; a found entry is served by m (m's middleware,
\* then the handler of the entry for the method), and a handler that runs
\* asks the router it was registered on for the parameters of the request;
\* with no entry, m's not-found handler runs, or 404 is written with the
\* request URL.
ServeResults(m, rawpath, method) ==
    LET path == replace(rawpath) IN
    UNION {
      IF e # NilEntry
      THEN LET sv == serveEntry(muxes[m], entries[e], method) IN
           {[entry |-> e, ran |-> sv.ran, mws |-> sv.mws, handler |-> sv.handler,
             params |-> ps, kind |-> "entry", status |-> 0, body |-> Empty] :
               ps \in IF sv.handler # NilHandler
                      THEN Params(muxes[OwnerOf(e)], rawpath) ELSE {<<>>}}
      ELSE IF muxes[m].notFound # NilHandler
      THEN {[entry |-> NilEntry, ran |-> FALSE, mws |-> <<>>,
             handler |-> muxes[m].notFound, params |-> <<>>, kind |-> "notFound",
             status |-> 0, body |-> Empty]}
      ELSE {[entry |-> NilEntry, ran |-> FALSE, mws |-> <<>>, handler |-> NilHandler,
             params |-> <<>>, kind |-> "error", status |-> StatusNotFound,
             body |-> NotFoundText \o rawpath]}
      : e \in searchEntry(m, path)}

\* A request served by the root router.
ServeHTTP(rawpath, method) ==
    /\ Root \notin Locked
    /\ \E r \in ServeResults(Root, rawpath, method) :
         resp' = [NoResp EXCEPT !.op = "ServeHTTP", !.mux = Root, !.path = rawpath,
                                !.method = method, !.entry = r.entry, !.ran = r.ran,
                                !.mws = r.mws, !.handler = r.handler,
                                !.params = r.params, !.kind = r.kind,
                                !.status = r.status, !.body = r.body]
    /\ UNCHANGED <<muxes, arrays, entries, reg, setups, nops, call>>
    /\ UNCHANGED serverVars
    /\ UNCHANGED lockVars

\* The client takes the response.
Return ==
    /\ resp' = NoResp
    /\ UNCHANGED <<muxes, arrays, entries, reg, setups, nops, call>>
    /\ UNCHANGED serverVars
    /\ UNCHANGED lockVars

-----------------------------------------------------------------------------
(* The specifications.  A call is made when no request is being served:    *)
(* the calls of one behaviour are sequential.                              *)

Idle == resp = NoResp

\* Every operation with every input.
Next ==
    \/ Idle /\ nops < MaxOps /\
         \E m \in DOMAIN muxes, p \in Patterns, h \in Handlers : Handle(m, p, h)
    \/ Idle /\ nops < MaxOps /\ \E e \in DOMAIN entries : GET(e)
    \/ Idle /\ nops < MaxOps /\ \E e \in DOMAIN entries : POST(e)
    \/ Idle /\ nops < MaxOps /\ \E e \in DOMAIN entries : PUT(e)
    \/ Idle /\ nops < MaxOps /\ \E e \in DOMAIN entries : DELETE(e)
    \/ Idle /\ nops < MaxOps /\ \E e \in DOMAIN entries : PATCH(e)
    \/ Idle /\ nops < MaxOps /\ \E e \in DOMAIN entries : HEAD(e)
    \/ Idle /\ nops < MaxOps /\ \E e \in DOMAIN entries : OPTIONS(e)
    \/ Idle /\ nops < MaxOps /\ \E e \in DOMAIN entries : TRACE(e)
    \/ Idle /\ nops < MaxOps /\ \E e \in DOMAIN entries : CONNECT(e)
    \/ Idle /\ nops < MaxOps /\ \E e \in DOMAIN entries : All(e)
    \/ Idle /\ nops < MaxOps /\
         \E m \in DOMAIN muxes, g \in GroupPrefixes : GroupBegin(m, g)
    \/ Idle /\ \E s \in setups : GroupEnd(s)
    \/ Idle /\ nops < MaxOps /\
         \E m \in DOMAIN muxes, h \in NotFoundHandlers : NotFound(m, h)
    \/ Idle /\ nops < MaxOps /\
         \E m \in DOMAIN muxes, h \in Middlewares : Use(m, h)
    \/ Idle /\ \E p \in Paths, method \in Methods : ServeHTTP(p, method)
    \/ ~Idle /\ Return

Spec == Init /\ [][Next]_vars

\* Routes and groups: every pattern and path, on every router, with the
\* not-found handler and one method selector.  One handler is enough here:
\* an entry tells which route served a request.
RouteMethods == {"GET", "POST"}
RouteHandlers == {"h1"}

NextRoutes ==
    \/ Idle /\ nops < MaxRouteOps /\
         \E m \in DOMAIN muxes, p \in Patterns, h \in RouteHandlers : Handle(m, p, h)
    \/ Idle /\ nops < MaxRouteOps /\ \E e \in DOMAIN entries : GET(e)
    \/ Idle /\ nops < MaxRouteOps /\
         \E m \in DOMAIN muxes, g \in GroupPrefixes : GroupBegin(m, g)
    \/ Idle /\ \E s \in setups : GroupEnd(s)
    \/ Idle /\ nops < MaxRouteOps /\
         \E m \in DOMAIN muxes, h \in NotFoundHandlers : NotFound(m, h)
    \/ Idle /\ \E p \in Paths, method \in RouteMethods : ServeHTTP(p, method)
    \/ ~Idle /\ Return

SpecRoutes == Init /\ [][NextRoutes]_vars

\* One literal and one parameterized pattern on the root router, with every
\* method selector and every request method.
MethodPatterns == {<<"/", "a">>, <<"/", "a", "/", ":", "k">>}
MethodPaths == {<<"/", "a">>, <<"/", "a", "/", "b">>}

NextMethods ==
    \/ Idle /\ nops < MaxMethodOps /\
         \E p \in MethodPatterns, h \in Handlers : Handle(Root, p, h)
    \/ Idle /\ nops < MaxMethodOps /\ \E e \in DOMAIN entries : GET(e)
    \/ Idle /\ nops < MaxMethodOps /\ \E e \in DOMAIN entries : POST(e)
    \/ Idle /\ nops < MaxMethodOps /\ \E e \in DOMAIN entries : PUT(e)
    \/ Idle /\ nops < MaxMethodOps /\ \E e \in DOMAIN entries : DELETE(e)
    \/ Idle /\ nops < MaxMethodOps /\ \E e \in DOMAIN entries : PATCH(e)
    \/ Idle /\ nops < MaxMethodOps /\ \E e \in DOMAIN entries : HEAD(e)
    \/ Idle /\ nops < MaxMethodOps /\ \E e \in DOMAIN entries : OPTIONS(e)
    \/ Idle /\ nops < MaxMethodOps /\ \E e \in DOMAIN entries : TRACE(e)
    \/ Idle /\ nops < MaxMethodOps /\ \E e \in DOMAIN entries : CONNECT(e)
    \/ Idle /\ nops < MaxMethodOps /\ \E e \in DOMAIN entries : All(e)
    \/ Idle /\ \E p \in MethodPaths, method \in Methods : ServeHTTP(p, method)
    \/ ~Idle /\ Return

SpecMethods == Init /\ [][NextMethods]_vars

\* Groups within groups, group prefixes and routes that end with a
\* separator, and the not-found handler on every router.
NestedPatterns == {<<"/", "a">>, <<"/", "a", "/", ":", "k">>, <<"/", ":", "k", "/">>}
NestedGroups == {<<"/", "g">>, <<"/", "g", "/">>}
NestedPaths ==
    {<<"/", "a", "/">>,
     <<"/", "a", "/", "b">>,
     <<"/", "g", "/", "a">>,
     <<"/", "g", "/", "/", "a">>,
     <<"/", "g", "/", "g", "/", "a">>}

NextGroups ==
    \/ Idle /\ nops < MaxGroupOps /\
         \E m \in DOMAIN muxes, p \in NestedPatterns, h \in RouteHandlers :
           Handle(m, p, h)
    \/ Idle /\ nops < MaxGroupOps /\
         \E m \in DOMAIN muxes, g \in NestedGroups : GroupBegin(m, g)
    \/ Idle /\ \E s \in setups : GroupEnd(s)
    \/ Idle /\ nops < MaxGroupOps /\
         \E m \in DOMAIN muxes, h \in NotFoundHandlers : NotFound(m, h)
    \/ Idle /\ \E p \in NestedPaths : ServeHTTP(p, "GET")
    \/ ~Idle /\ Return

SpecGroups == Init /\ [][NextGroups]_vars

\* Middleware: Use on the root router and on group routers, during the
\* setup of a group and after it, with one route pattern, one group, one
\* method selector, and requests that match a route of the root, a route of
\* the group, and no route.
MiddlewarePatterns == {<<"/", "a">>}
MiddlewareGroups == {<<"/", "g">>}
MiddlewarePaths == {<<"/", "a">>, <<"/", "g", "/", "a">>, <<"/", "b">>}

\* The root router after k calls of Use with the first middleware.
RECURSIVE FirstUses(_)
FirstUses(k) ==
    IF k = 0 THEN [mux |-> NewMux, arrays |-> <<>>]
    ELSE LET r == FirstUses(k - 1) IN
         UseResult(r.arrays, r.mux, CHOOSE h \in Middlewares : TRUE)

InitMiddleware ==
    /\ \E k \in 0..MaxFirstUses :
         /\ muxes = [m \in {Root} |-> FirstUses(k).mux]
         /\ arrays = FirstUses(k).arrays
    /\ entries = <<>>
    /\ reg = <<>>
    /\ setups = {}
    /\ nops = 0
    /\ call = NoCall
    /\ resp = NoResp
    /\ rum = New
    /\ mut = Free
    /\ lns = <<>>
    /\ reactors = <<>>
    /\ serves = <<>>
    /\ closes = <<>>
    /\ conns = <<>>
    /\ cbs = <<>>
    /\ muts = [m \in LockRouters |-> Unlocked]
    /\ tasks = <<>>

NextMiddleware ==
    \/ Idle /\ nops < MaxMiddlewareOps /\
         \E m \in DOMAIN muxes, h \in Middlewares : Use(m, h)
    \/ Idle /\ nops < MaxMiddlewareOps /\
         \E m \in DOMAIN muxes, p \in MiddlewarePatterns, h \in RouteHandlers :
           Handle(m, p, h)
    \/ Idle /\ nops < MaxMiddlewareOps /\ \E e \in DOMAIN entries : GET(e)
    \/ Idle /\ nops < MaxMiddlewareOps /\
         \E g \in MiddlewareGroups : GroupBegin(Root, g)
    \/ Idle /\ \E s \in setups : GroupEnd(s)
    \/ Idle /\ \E p \in MiddlewarePaths, method \in RouteMethods : ServeHTTP(p, method)
    \/ ~Idle /\ Return

SpecMiddleware == InitMiddleware /\ [][NextMiddleware]_vars

-----------------------------------------------------------------------------
(* The server.  A Serve call s serves the listener s (Run binds one per    *)
(* call) and, in reactor mode, creates the reactor s.  The listener, the   *)
(* reactor and the peers of the connections are the server's environment:  *)
(* a closed listener fails Accept; a reactor accepts connections, calls    *)
(* the upgrade callback once per connection and the serve callback once    *)
(* per readiness event, on any of its workers, and stops doing so when it  *)
(* is closed, letting the callbacks that have started finish.              *)

\* The external handler a caller may put in Rum.Handler, and the name under
\* which the built-in router is dispatched to.
ExternalHandlers == {"H"}
Router == "mux"

\* The error of an Accept on a closed listener or of a closed reactor.
ErrClosed == "use of closed network connection"

\* var handler = m.Handler; if handler == nil { handler = m }
handlerOf(h) == IF h = NilHandler THEN Router ELSE h

\* A Serve call that serves no reactor.
NoReactor == [closed |-> TRUE, used |-> FALSE]

\* The Close calls that have returned.
Returned == {k \in DOMAIN closes : closes[k].pc = "returned"}

\* Serve, up to the registration: the engine is chosen, and the reactor
\* engine takes its handler now and builds its reactor.
ServeCall ==
    /\ serves' = Append(serves,
                   [pc |-> "register", poll |-> rum.poll, fast |-> rum.fast,
                    handler |-> IF rum.poll THEN handlerOf(rum.Handler) ELSE NilHandler,
                    atStart |-> rum.Handler, err |-> ErrNone, stopped |-> FALSE])
    /\ lns' = Append(lns, [closed |-> FALSE])
    /\ reactors' = Append(reactors,
                     IF rum.poll THEN [closed |-> FALSE, used |-> TRUE] ELSE NoReactor)
    /\ UNCHANGED <<rum, mut, closes, conns, cbs>>
    /\ UNCHANGED routerVars
    /\ UNCHANGED lockVars

\* A mutant of Serve that goes on to its loop without registering.
ServeRegisterSkipped(s) ==
    /\ serves[s].pc = "register"
    /\ mut = Free
    /\ serves' = [serves EXCEPT ![s].pc = IF serves[s].poll THEN "enter" ELSE "accept"]
    /\ UNCHANGED <<rum, mut, lns, reactors, closes, conns, cbs>>
    /\ UNCHANGED routerVars
    /\ UNCHANGED lockVars

\* Serve registers its reactor or its listener under Rum.mut.
ServeRegister(s) ==
    /\ serves[s].pc = "register"
    /\ mut = Free
    /\ IF serves[s].poll
       THEN /\ rum' = [rum EXCEPT !.pollers = Append(@, s)]
            /\ serves' = [serves EXCEPT ![s].pc = "enter"]
       ELSE /\ rum' = [rum EXCEPT !.listeners = Append(@, s)]
            /\ serves' = [serves EXCEPT ![s].pc = "accept"]
    /\ UNCHANGED <<mut, lns, reactors, closes, conns, cbs>>
    /\ UNCHANGED routerVars
    /\ UNCHANGED lockVars

\* A connection as accepted: its task not started (blocking engine) or its
\* context as the upgrade callback builds it (reactor engine).
NewConn(s, engine) ==
    [serve |-> s, engine |-> engine, fast |-> serves[s].fast,
     pc |-> IF engine = "blocking" THEN "spawned" ELSE "context",
     handler |-> IF engine = "blocking" THEN NilHandler ELSE serves[s].handler,
     arrived |-> 0, segments |-> 0, pending |-> 0, events |-> 0, eof |-> FALSE,
     decoded |-> 0, responses |-> <<>>, serving |-> Free, open |-> TRUE,
     targets |-> {}, afterStop |-> serves[s].stopped, late |-> FALSE]

\* The accept loop of the blocking engine: a connection is accepted and its
\* task spawned.
Accept(s) ==
    /\ serves[s].pc = "accept"
    /\ ~lns[s].closed
    /\ conns' = Append(conns, NewConn(s, "blocking"))
    /\ UNCHANGED <<rum, mut, lns, reactors, serves, closes, cbs>>
    /\ UNCHANGED routerVars
    /\ UNCHANGED lockVars

\* The accept loop of the blocking engine: Accept fails and Serve returns
\* the error.
AcceptFail(s) ==
    /\ serves[s].pc = "accept"
    /\ lns[s].closed
    /\ serves' = [serves EXCEPT ![s].pc = "returned", ![s].err = ErrClosed]
    /\ UNCHANGED <<rum, mut, lns, reactors, closes, conns, cbs>>
    /\ UNCHANGED routerVars
    /\ UNCHANGED lockVars

\* return poller.Serve(l): the reactor's loop is entered.
PollerServe(s) ==
    /\ serves[s].pc = "enter"
    /\ ~reactors[s].closed
    /\ serves' = [serves EXCEPT ![s].pc = "serving"]
    /\ UNCHANGED <<rum, mut, lns, reactors, closes, conns, cbs>>
    /\ UNCHANGED routerVars
    /\ UNCHANGED lockVars

\* return poller.Serve(l): the reactor is closed, its Serve returns an error.
PollerReturn(s) ==
    /\ serves[s].pc \in {"enter", "serving"}
    /\ reactors[s].closed
    /\ serves' = [serves EXCEPT ![s].pc = "returned", ![s].err = ErrClosed]
    /\ UNCHANGED <<rum, mut, lns, reactors, closes, conns, cbs>>
    /\ UNCHANGED routerVars
    /\ UNCHANGED lockVars

\* The reactor accepts a connection and calls the upgrade callback.
Upgrade(s) ==
    /\ serves[s].pc = "serving"
    /\ ~reactors[s].closed
    /\ conns' = Append(conns, NewConn(s, "reactor"))
    /\ UNCHANGED <<rum, mut, lns, reactors, serves, closes, cbs>>
    /\ UNCHANGED routerVars
    /\ UNCHANGED lockVars

\* The peer sends k pipelined requests that arrive together: one readiness
\* event in the reactor engine.
Arrive(c, k) ==
    /\ conns[c].open /\ ~conns[c].eof
    /\ conns' = [conns EXCEPT ![c].arrived = @ + k, ![c].pending = @ + k,
                              ![c].segments = @ + 1,
                              ![c].events = IF conns[c].engine = "reactor"
                                            THEN @ + 1 ELSE @]
    /\ UNCHANGED <<rum, mut, lns, reactors, serves, closes, cbs>>
    /\ UNCHANGED routerVars
    /\ UNCHANGED lockVars

\* The peer closes its side: the end of the stream, also a readiness event.
PeerClose(c) ==
    /\ conns[c].open /\ ~conns[c].eof
    /\ conns' = [conns EXCEPT ![c].eof = TRUE,
                              ![c].events = IF conns[c].engine = "reactor"
                                            THEN @ + 1 ELSE @]
    /\ UNCHANGED <<rum, mut, lns, reactors, serves, closes, cbs>>
    /\ UNCHANGED routerVars
    /\ UNCHANGED lockVars

\* A request is decoded on connection c and handed to the connection's
\* handler: handler.ServeHTTP(res, req) is entered.
Decoded(c) ==
    [conns[c] EXCEPT !.pending = @ - 1, !.decoded = @ + 1,
                     !.targets = @ \cup {conns[c].handler},
                     !.late = @ \/ Returned # {}]

\* serveConn / serveFastConn start: the task takes the handler.
ConnStart(c) ==
    /\ conns[c].pc = "spawned"
    /\ conns' = [conns EXCEPT ![c].handler = handlerOf(rum.Handler), ![c].pc = "read"]
    /\ UNCHANGED <<rum, mut, lns, reactors, serves, closes, cbs>>
    /\ UNCHANGED routerVars
    /\ UNCHANGED lockVars

\* serveConn / serveFastConn: the next request is decoded and dispatched.
ConnDecode(c) ==
    /\ conns[c].pc = "read"
    /\ conns[c].pending > 0
    /\ conns' = [conns EXCEPT ![c] = [Decoded(c) EXCEPT !.pc = "handler"]]
    /\ UNCHANGED <<rum, mut, lns, reactors, serves, closes, cbs>>
    /\ UNCHANGED routerVars
    /\ UNCHANGED lockVars

\* serveConn / serveFastConn: the handler has returned, the response is
\* finished and the loop goes on.
ConnFinish(c) ==
    /\ conns[c].pc = "handler"
    /\ conns' = [conns EXCEPT ![c].responses = Append(@, conns[c].decoded),
                              ![c].pc = "read"]
    /\ UNCHANGED <<rum, mut, lns, reactors, serves, closes, cbs>>
    /\ UNCHANGED routerVars
    /\ UNCHANGED lockVars

\* serveConn / serveFastConn: the decoding fails at the end of the stream;
\* the loop ends and the connection is closed.
ConnBreak(c) ==
    /\ conns[c].pc = "read"
    /\ conns[c].pending = 0 /\ conns[c].eof
    /\ conns' = [conns EXCEPT ![c].pc = "done", ![c].open = FALSE]
    /\ UNCHANGED <<rum, mut, lns, reactors, serves, closes, cbs>>
    /\ UNCHANGED routerVars
    /\ UNCHANGED lockVars

\* A mutant of the serve callback that does not take the lock.
servingLockNone(c) == TRUE

\* ctx.serving.Lock(): the callback goes on when no callback holds the
\* lock of the connection's context.
servingLock(c) == conns[c].serving = Free

\* The reactor calls the serve callback for a readiness event of connection
\* c on one of its workers, and the callback takes the lock.
CbStart(c) ==
    /\ conns[c].engine = "reactor" /\ conns[c].open
    /\ conns[c].events > 0
    /\ ~reactors[conns[c].serve].closed
    /\ servingLock(c)
    /\ cbs' = Append(cbs, [conn |-> c, pc |-> "read", req |-> 0])
    /\ conns' = [conns EXCEPT ![c].events = @ - 1, ![c].serving = Len(cbs) + 1]
    /\ UNCHANGED <<rum, mut, lns, reactors, serves, closes>>
    /\ UNCHANGED routerVars
    /\ UNCHANGED lockVars

\* A mutant of the serve callback that returns the error of the decoding
\* without unlocking.
CbDecodeLocked(b) ==
    /\ cbs[b].pc = "read"
    /\ LET c == cbs[b].conn IN
       IF conns[c].pending > 0
       THEN /\ conns' = [conns EXCEPT ![c] = Decoded(c)]
            /\ cbs' = [cbs EXCEPT ![b].pc = "handler", ![b].req = conns[c].decoded + 1]
       ELSE /\ conns' = [conns EXCEPT ![c].open = FALSE]
            /\ cbs' = [cbs EXCEPT ![b].pc = "failed"]
    /\ UNCHANGED <<rum, mut, lns, reactors, serves, closes>>
    /\ UNCHANGED routerVars
    /\ UNCHANGED lockVars

\* The serve callback decodes one request and dispatches it; when the
\* decoding fails it unlocks and returns the error, and the reactor
\* disposes of the connection.
CbDecode(b) ==
    /\ cbs[b].pc = "read"
    /\ LET c == cbs[b].conn IN
       IF conns[c].pending > 0
       THEN /\ conns' = [conns EXCEPT ![c] = Decoded(c)]
            /\ cbs' = [cbs EXCEPT ![b].pc = "handler", ![b].req = conns[c].decoded + 1]
       ELSE /\ conns' = [conns EXCEPT ![c].serving = Free, ![c].open = FALSE]
            /\ cbs' = [cbs EXCEPT ![b].pc = "failed"]
    /\ UNCHANGED <<rum, mut, lns, reactors, serves, closes>>
    /\ UNCHANGED routerVars
    /\ UNCHANGED lockVars

\* The serve callback: the handler has returned, the response is finished,
\* the lock released, and the callback returns nil.
CbFinish(b) ==
    /\ cbs[b].pc = "handler"
    /\ LET c == cbs[b].conn IN
       conns' = [conns EXCEPT ![c].responses = Append(@, cbs[b].req),
                              ![c].serving = Free]
    /\ cbs' = [cbs EXCEPT ![b].pc = "done"]
    /\ UNCHANGED <<rum, mut, lns, reactors, serves, closes>>
    /\ UNCHANGED routerVars
    /\ UNCHANGED lockVars

\* The Serve calls whose listener or reactor is in the registry.
InRegistry ==
    {rum.listeners[i] : i \in DOMAIN rum.listeners} \cup
    {rum.pollers[i] : i \in DOMAIN rum.pollers}

\* Close takes Rum.mut.  (History: the Serve calls found in the registry,
\* and the server, the listeners and the reactors as they are now.)
CloseBegin ==
    /\ mut = Free
    /\ mut' = Len(closes) + 1
    /\ closes' = Append(closes, [pc |-> "listeners", found |-> InRegistry,
                                 before |-> [rum |-> rum, lns |-> lns,
                                             reactors |-> reactors],
                                 err |-> ErrNone])
    /\ UNCHANGED <<rum, lns, reactors, serves, conns, cbs>>
    /\ UNCHANGED routerVars
    /\ UNCHANGED lockVars

\* A mutant of Close that closes no listener.
closeListenersNone(k) ==
    /\ closes[k].pc = "listeners"
    /\ rum' = [rum EXCEPT !.listeners = <<>>]
    /\ closes' = [closes EXCEPT ![k].pc = "pollers"]
    /\ UNCHANGED <<mut, lns, reactors, serves, conns, cbs>>
    /\ UNCHANGED routerVars
    /\ UNCHANGED lockVars

\* A mutant of Close that keeps the listeners in the registry.
closeListenersKept(k) ==
    /\ closes[k].pc = "listeners"
    /\ lns' = [l \in DOMAIN lns |->
                 IF l \in {rum.listeners[i] : i \in DOMAIN rum.listeners}
                 THEN [lns[l] EXCEPT !.closed = TRUE] ELSE lns[l]]
    /\ closes' = [closes EXCEPT ![k].pc = "pollers"]
    /\ UNCHANGED <<rum, mut, reactors, serves, conns, cbs>>
    /\ UNCHANGED routerVars
    /\ UNCHANGED lockVars

\* A mutant of Close that also closes the connections accepted from the
\* listeners.
closeListenersAndConns(k) ==
    /\ closes[k].pc = "listeners"
    /\ lns' = [l \in DOMAIN lns |->
                 IF l \in {rum.listeners[i] : i \in DOMAIN rum.listeners}
                 THEN [lns[l] EXCEPT !.closed = TRUE] ELSE lns[l]]
    /\ rum' = [rum EXCEPT !.listeners = <<>>]
    /\ conns' = [c \in DOMAIN conns |->
                   IF conns[c].serve \in {rum.listeners[i] : i \in DOMAIN rum.listeners}
                   THEN [conns[c] EXCEPT !.open = FALSE] ELSE conns[c]]
    /\ closes' = [closes EXCEPT ![k].pc = "pollers"]
    /\ UNCHANGED <<mut, reactors, serves, cbs>>
    /\ UNCHANGED routerVars
    /\ UNCHANGED lockVars

\* Close: every listener of the registry is closed and the registry of
\* listeners is emptied.
closeListeners(k) ==
    /\ closes[k].pc = "listeners"
    /\ lns' = [l \in DOMAIN lns |->
                 IF l \in {rum.listeners[i] : i \in DOMAIN rum.listeners}
                 THEN [lns[l] EXCEPT !.closed = TRUE] ELSE lns[l]]
    /\ rum' = [rum EXCEPT !.listeners = <<>>]
    /\ closes' = [closes EXCEPT ![k].pc = "pollers"]
    /\ UNCHANGED <<mut, reactors, serves, conns, cbs>>
    /\ UNCHANGED routerVars
    /\ UNCHANGED lockVars

\* Close: every reactor of the registry is closed and the registry of
\* reactors is emptied.
closePollers(k) ==
    /\ closes[k].pc = "pollers"
    /\ reactors' = [r \in DOMAIN reactors |->
                      IF r \in {rum.pollers[i] : i \in DOMAIN rum.pollers}
                      THEN [reactors[r] EXCEPT !.closed = TRUE] ELSE reactors[r]]
    /\ rum' = [rum EXCEPT !.pollers = <<>>]
    /\ closes' = [closes EXCEPT ![k].pc = "detach"]
    /\ UNCHANGED <<mut, lns, serves, conns, cbs>>
    /\ UNCHANGED routerVars
    /\ UNCHANGED lockVars

\* Close: m.Handler = nil
closeDetach(k) ==
    /\ closes[k].pc = "detach"
    /\ rum' = [rum EXCEPT !.Handler = NilHandler]
    /\ closes' = [closes EXCEPT ![k].pc = "return"]
    /\ UNCHANGED <<mut, lns, reactors, serves, conns, cbs>>
    /\ UNCHANGED routerVars
    /\ UNCHANGED lockVars

\* Close returns nil and releases Rum.mut.  (History: the Serve calls it
\* found in the registry have been stopped.)
closeReturn(k) ==
    /\ closes[k].pc = "return"
    /\ mut' = Free
    /\ closes' = [closes EXCEPT ![k].pc = "returned", ![k].err = ErrNone]
    /\ serves' = [x \in DOMAIN serves |->
                    IF x \in closes[k].found
                    THEN [serves[x] EXCEPT !.stopped = TRUE] ELSE serves[x]]
    /\ UNCHANGED <<rum, lns, reactors, conns, cbs>>
    /\ UNCHANGED routerVars
    /\ UNCHANGED lockVars

\* A step of a Close call that has taken the lock.
Close(k) ==
    \/ closeListeners(k)
    \/ closePollers(k)
    \/ closeDetach(k)
    \/ closeReturn(k)

-----------------------------------------------------------------------------
(* The specification of the server: each of the four modes, with and       *)
(* without an external handler.                                            *)

\* The number of calls and events of the environment in a behaviour (Serve
\* and Close calls, connections, arrivals of requests, ends of streams), and
\* the number of requests that arrive together.
MaxServerOps == 4
MaxBatch == 2

\* The calls and events so far.
RECURSIVE Arrivals(_)
Arrivals(c) ==
    IF c = 0 THEN 0
    ELSE conns[c].segments + (IF conns[c].eof THEN 1 ELSE 0) + Arrivals(c - 1)
ServerOps == Len(serves) + Len(closes) + Len(conns) + Arrivals(Len(conns))

InitServer ==
    /\ muxes = [m \in {Root} |-> NewMux]
    /\ arrays = <<>>
    /\ entries = <<>>
    /\ reg = <<>>
    /\ setups = {}
    /\ nops = 0
    /\ call = NoCall
    /\ resp = NoResp
    /\ rum \in {[New EXCEPT !.Handler = h, !.fast = f, !.poll = p] :
                  h \in ExternalHandlers \cup {NilHandler}, f \in BOOLEAN, p \in BOOLEAN}
    /\ mut = Free
    /\ lns = <<>>
    /\ reactors = <<>>
    /\ serves = <<>>
    /\ closes = <<>>
    /\ conns = <<>>
    /\ cbs = <<>>
    /\ muts = [m \in LockRouters |-> Unlocked]
    /\ tasks = <<>>

NextServer ==
    \/ ServerOps < MaxServerOps /\ ServeCall
    \/ \E s \in DOMAIN serves : ServeRegister(s)
    \/ \E s \in DOMAIN serves : ServerOps < MaxServerOps /\ Accept(s)
    \/ \E s \in DOMAIN serves : AcceptFail(s)
    \/ \E s \in DOMAIN serves : PollerServe(s)
    \/ \E s \in DOMAIN serves : PollerReturn(s)
    \/ \E s \in DOMAIN serves : ServerOps < MaxServerOps /\ Upgrade(s)
    \/ \E c \in DOMAIN conns, k \in 1..MaxBatch :
         ServerOps < MaxServerOps /\ Arrive(c, k)
    \/ \E c \in DOMAIN conns : ServerOps < MaxServerOps /\ PeerClose(c)
    \/ \E c \in DOMAIN conns : ConnStart(c)
    \/ \E c \in DOMAIN conns : ConnDecode(c)
    \/ \E c \in DOMAIN conns : ConnFinish(c)
    \/ \E c \in DOMAIN conns : ConnBreak(c)
    \/ \E c \in DOMAIN conns : CbStart(c)
    \/ \E b \in DOMAIN cbs : CbDecode(b)
    \/ \E b \in DOMAIN cbs : CbFinish(b)
    \/ ServerOps < MaxServerOps /\ CloseBegin
    \/ \E k \in DOMAIN closes : Close(k)

SpecServer == InitServer /\ [][NextServer]_vars

\* The server under the scheduling Go gives: a Close call that holds the
\* lock goes on to its return, and a Serve call whose Accept or whose
\* reactor can return an error returns it.
FairServer ==
    /\ WF_vars(\E k \in DOMAIN closes : Close(k))
    /\ WF_vars(\E s \in DOMAIN serves : AcceptFail(s))
    /\ WF_vars(\E s \in DOMAIN serves : PollerReturn(s))

SpecServerLive == InitServer /\ [][NextServer]_vars /\ FairServer

-----------------------------------------------------------------------------
(* The locks of the routers.  Each call of the Mux API is a task that      *)
(* takes and releases Mux.mut of the router it is called on as the code    *)
(* does, whatever the tables hold: what a lookup finds is a choice.  The   *)
(* routers are the root and the router that a Group call on the root has   *)
(* stored, whose address the setup procedure has kept.                     *)

\* The number of calls in a behaviour.
MaxTasks == 3

\* sync.RWMutex: RLock and Lock go on when the lock allows it.
CanRLock(m) == muts[m].writer = Free
CanLock(m) == muts[m].writer = Free /\ muts[m].readers = {}
RLock(m, t) == [muts EXCEPT ![m].readers = @ \cup {t}]
Lock(m, t) == [muts EXCEPT ![m].writer = t]
Unlock(m, t) == [muts EXCEPT ![m].writer = Free]

\* A mutant of ServeHTTP that keeps the read lock while it serves.
RUnlockNever(m, t) == muts

\* m.mut.RUnlock()
RUnlock(m, t) == [muts EXCEPT ![m].readers = @ \ {t}]

\* The calls of the API that take a lock.
Registrations == {"Handle", "Use", "NotFound", "Group"}
Calls == Registrations \cup {"ServeHTTP", "Params"}

\* A Group call on the root has stored its router.
GroupStored ==
    \E t \in DOMAIN tasks :
        tasks[t].op = "Group" /\ tasks[t].mux = Root /\ tasks[t].pc = "done"

\* A task calls op on router m: requests are served by the root, and the
\* group's router is called once it exists.
TaskCall(op, m) ==
    /\ Len(tasks) < MaxTasks
    /\ op = "ServeHTTP" => m = Root
    /\ m = Grp => GroupStored
    /\ tasks' = Append(tasks, [op |-> op, mux |-> m, pc |-> "lock"])
    /\ UNCHANGED muts
    /\ UNCHANGED <<routerVars, serverVars>>

\* ServeHTTP: m.mut.RLock()
DispatchRLock(t) ==
    /\ tasks[t].op = "ServeHTTP" /\ tasks[t].pc = "lock"
    /\ CanRLock(tasks[t].mux)
    /\ muts' = RLock(tasks[t].mux, t)
    /\ tasks' = [tasks EXCEPT ![t].pc = "searchEntry"]
    /\ UNCHANGED <<routerVars, serverVars>>

\* ServeHTTP: searchEntry looks in the router's own table; with an entry,
\* or with none and no group to look in, the read lock is released.
DispatchSearch(t) ==
    /\ tasks[t].pc = "searchEntry"
    /\ \/ /\ muts' = RUnlock(tasks[t].mux, t)
          /\ tasks' = [tasks EXCEPT ![t].pc = "serveEntry"]
       \/ /\ ~GroupStored
          /\ muts' = RUnlock(tasks[t].mux, t)
          /\ tasks' = [tasks EXCEPT ![t].pc = "notFound"]
       \/ /\ GroupStored
          /\ tasks' = [tasks EXCEPT ![t].pc = "searchGroups"]
          /\ UNCHANGED muts
    /\ UNCHANGED <<routerVars, serverVars>>

\* ServeHTTP: searchEntry has looked in the tables of the groups, under the
\* read lock of the router ServeHTTP was called on; the lock is released.
DispatchSearchGroups(t) ==
    /\ tasks[t].pc = "searchGroups"
    /\ muts' = RUnlock(tasks[t].mux, t)
    /\ \E pc \in {"serveEntry", "notFound"} : tasks' = [tasks EXCEPT ![t].pc = pc]
    /\ UNCHANGED <<routerVars, serverVars>>

\* serveEntry: the entry accepts the method and is served, or it does not
\* and ServeHTTP returns.
DispatchServeEntry(t) ==
    /\ tasks[t].pc = "serveEntry"
    /\ \E pc \in {"middleware", "done"} : tasks' = [tasks EXCEPT ![t].pc = pc]
    /\ UNCHANGED muts
    /\ UNCHANGED <<routerVars, serverVars>>

\* serveHandler: m.middleware reads the middleware sequence; the middleware
\* and the handler run.
DispatchMiddleware(t) ==
    /\ tasks[t].pc = "middleware"
    /\ tasks' = [tasks EXCEPT ![t].pc = "handler"]
    /\ UNCHANGED muts
    /\ UNCHANGED <<routerVars, serverVars>>

\* ServeHTTP with no entry: m.notFound is read; the not-found handler or
\* http.Error runs.
DispatchNotFound(t) ==
    /\ tasks[t].pc = "notFound"
    /\ tasks' = [tasks EXCEPT ![t].pc = "handler"]
    /\ UNCHANGED muts
    /\ UNCHANGED <<routerVars, serverVars>>

\* The handler returns, and ServeHTTP with it.  (A handler may also never
\* return: no step of a task is ever forced.)
DispatchReturn(t) ==
    /\ tasks[t].pc = "handler"
    /\ tasks' = [tasks EXCEPT ![t].pc = "done"]
    /\ UNCHANGED muts
    /\ UNCHANGED <<routerVars, serverVars>>

\* Handle, Use, NotFound, Group: m.mut.Lock()
RegisterLock(t) ==
    /\ tasks[t].op \in Registrations /\ tasks[t].pc = "lock"
    /\ CanLock(tasks[t].mux)
    /\ muts' = Lock(tasks[t].mux, t)
    /\ tasks' = [tasks EXCEPT ![t].pc = IF tasks[t].op = "Group" THEN "setup" ELSE "write"]
    /\ UNCHANGED <<routerVars, serverVars>>

\* Handle, Use, NotFound: the table, the middleware sequence or the
\* not-found handler is written, and the deferred Unlock runs.
RegisterWrite(t) ==
    /\ tasks[t].pc = "write"
    /\ muts' = Unlock(tasks[t].mux, t)
    /\ tasks' = [tasks EXCEPT ![t].pc = "done"]
    /\ UNCHANGED <<routerVars, serverVars>>

\* Group: the setup procedure runs on the new router and returns.
GroupSetup(t) ==
    /\ tasks[t].pc = "setup"
    /\ tasks' = [tasks EXCEPT ![t].pc = "store"]
    /\ UNCHANGED muts
    /\ UNCHANGED <<routerVars, serverVars>>

\* Group: the group collection is looked up and the new router stored (or
\* ErrGroupExisted raised), and the deferred Unlock runs.
GroupStore(t) ==
    /\ tasks[t].pc = "store"
    /\ muts' = Unlock(tasks[t].mux, t)
    /\ tasks' = [tasks EXCEPT ![t].pc = "done"]
    /\ UNCHANGED <<routerVars, serverVars>>

\* Params: m.mut.RLock()
ParamsRLock(t) ==
    /\ tasks[t].op = "Params" /\ tasks[t].pc = "lock"
    /\ CanRLock(tasks[t].mux)
    /\ muts' = RLock(tasks[t].mux, t)
    /\ tasks' = [tasks EXCEPT ![t].pc = "matchParams"]
    /\ UNCHANGED <<routerVars, serverVars>>

\* Params: the table is looked up, and the deferred RUnlock runs.
ParamsReturn(t) ==
    /\ tasks[t].pc = "matchParams"
    /\ muts' = RUnlock(tasks[t].mux, t)
    /\ tasks' = [tasks EXCEPT ![t].pc = "done"]
    /\ UNCHANGED <<routerVars, serverVars>>

\* A step of task t.
TaskStep(t) ==
    \/ DispatchRLock(t)
    \/ DispatchSearch(t)
    \/ DispatchSearchGroups(t)
    \/ DispatchServeEntry(t)
    \/ DispatchMiddleware(t)
    \/ DispatchNotFound(t)
    \/ DispatchReturn(t)
    \/ RegisterLock(t)
    \/ RegisterWrite(t)
    \/ GroupSetup(t)
    \/ GroupStore(t)
    \/ ParamsRLock(t)
    \/ ParamsReturn(t)

\* The routing state a task is reading or writing where it is: the router,
\* the field, and whether it writes.
Access(m, field, write) == [mux |-> m, field |-> field, write |-> write]
Accesses(t) ==
    LET m == tasks[t].mux
        op == tasks[t].op
        pc == tasks[t].pc
    IN CASE pc = "searchEntry" ->
              {Access(m, "prefixes", FALSE), Access(m, "groups", FALSE)}
         [] pc = "searchGroups" ->
              {Access(Grp, "prefixes", FALSE), Access(Grp, "groups", FALSE)}
         [] pc = "middleware" -> {Access(m, "middlewares", FALSE)}
         [] pc = "notFound" -> {Access(m, "notFound", FALSE)}
         [] pc = "matchParams" -> {Access(m, "prefixes", FALSE)}
         [] pc = "write" /\ op = "Handle" -> {Access(m, "prefixes", TRUE)}
         [] pc = "write" /\ op = "Use" -> {Access(m, "middlewares", TRUE)}
         [] pc = "write" /\ op = "NotFound" -> {Access(m, "notFound", TRUE)}
         [] pc = "store" ->
              {Access(m, "groups", TRUE), Access(m, "middlewares", FALSE)}
         [] OTHER -> {}

NextLocks ==
    \/ \E op \in Calls, m \in LockRouters : TaskCall(op, m)
    \/ \E t \in DOMAIN tasks : DispatchRLock(t)
    \/ \E t \in DOMAIN tasks : DispatchSearch(t)
    \/ \E t \in DOMAIN tasks : DispatchSearchGroups(t)
    \/ \E t \in DOMAIN tasks : DispatchServeEntry(t)
    \/ \E t \in DOMAIN tasks : DispatchMiddleware(t)
    \/ \E t \in DOMAIN tasks : DispatchNotFound(t)
    \/ \E t \in DOMAIN tasks : DispatchReturn(t)
    \/ \E t \in DOMAIN tasks : RegisterLock(t)
    \/ \E t \in DOMAIN tasks : RegisterWrite(t)
    \/ \E t \in DOMAIN tasks : GroupSetup(t)
    \/ \E t \in DOMAIN tasks : GroupStore(t)
    \/ \E t \in DOMAIN tasks : ParamsRLock(t)
    \/ \E t \in DOMAIN tasks : ParamsReturn(t)

SpecLocks == Init /\ [][NextLocks]_vars

-----------------------------------------------------------------------------
(* What the claims speak of, said without the code's prefix/key tables.    *)

\* A parameter segment begins with the marker; its name is what follows.
IsParamSeg(seg) == seg # Empty /\ seg[1] = Colon
ParamName(seg) == Tail(seg)

\* The positions of the parameter segments of a template.
ParamPositions(t) == {i \in 1..Len(Split(t, Slash)) : IsParamSeg(Split(t, Slash)[i])}

\* A template of the pattern syntax: every marker begins a segment and is
\* followed by a name.
WellFormed(t) ==
    \A i \in 1..Len(Split(t, Slash)) :
        LET seg == Split(t, Slash)[i] IN
        IF IsParamSeg(seg)
        THEN Len(seg) > 1 /\ ~Contains(ParamName(seg), <<Colon>>)
        ELSE ~Contains(seg, <<Colon>>)

\* A path matches the shape of a template: as many segments, and each
\* literal segment of the template equal to the path's.
MatchesShape(t, path) ==
    LET ts == Split(t, Slash)
        ps == Split(path, Slash)
    IN /\ Len(ts) = Len(ps)
       /\ \A i \in 1..Len(ts) : IsParamSeg(ts[i]) \/ ts[i] = ps[i]

\* The literal prefix of a template: all that precedes its first marker.
LiteralPrefix(t) ==
    IF Contains(t, <<Colon>>) THEN SubSeq(t, 1, Index(t, Colon) - 1) ELSE t

\* The parameters a path gives a template: each name with the path segment
\* at the position of the name (of its last occurrence, when it repeats).
ExpectedParams(t, path) ==
    LET ts == Split(t, Slash)
        ps == Split(path, Slash)
    IN [n \in {ParamName(ts[i]) : i \in ParamPositions(t)} |->
          ps[CHOOSE i \in ParamPositions(t) :
               /\ ParamName(ts[i]) = n
               /\ \A j \in ParamPositions(t) : j > i => ParamName(ts[j]) # n]]

\* The entries a dispatch on the root can find: those of the root's table
\* and of the tables of its groups.
Routed == UNION {EntriesOf(m) : m \in Reach(Root)}

\* The method bit of a named method.
BitOf(method) ==
    CASE method = "GET" -> get
      [] method = "POST" -> post
      [] method = "PUT" -> put
      [] method = "DELETE" -> delete
      [] method = "PATCH" -> patch
      [] method = "HEAD" -> head
      [] method = "OPTIONS" -> options
      [] method = "TRACE" -> trace
      [] method = "CONNECT" -> connect

\* The handler an entry holds for a named method.
SlotOf(entry, method) ==
    CASE method = "GET" -> entry.get
      [] method = "POST" -> entry.post
      [] method = "PUT" -> entry.put
      [] method = "DELETE" -> entry.delete
      [] method = "PATCH" -> entry.patch
      [] method = "HEAD" -> entry.head
      [] method = "OPTIONS" -> entry.options
      [] method = "TRACE" -> entry.trace
      [] method = "CONNECT" -> entry.connect

\* The methods in an entry's supported set.
Supported(entry) == {method \in NamedMethods : HasBit(entry.method, BitOf(method))}

\* An entry accepts a method: it is method-agnostic or supports the method.
Accepts(entry, method) == entry.method = 0 \/ method \in Supported(entry)

\* The handler an entry has for a method it accepts.
HandlerFor(entry, method) ==
    IF entry.method = 0 THEN entry.handler ELSE SlotOf(entry, method)

\* The path of the request being served, normalized.
ReqPath == replace(resp.path)

-----------------------------------------------------------------------------
(* C1 *)

\* The parameter names of a template are distinct, and the path gives
\* each parameter a non-empty segment.
DistinctNames(t) ==
    \A i, j \in ParamPositions(t) :
        ParamName(Split(t, Slash)[i]) = ParamName(Split(t, Slash)[j]) => i = j
NonEmptyValues(t, path) ==
    \A i \in ParamPositions(t) : Split(path, Slash)[i] # Empty

Shadowed(e, path) ==
    /\ reg[e].tmpl # path
    /\ \E e2 \in EntriesOf(OwnerOf(e)) : LiteralPrefix(reg[e2].tmpl) = path

\* The case C1 holds in: a well-formed template that the path matches, alone
\* among the routed templates, the path not being shadowed.
C1_Case(e, path) ==
    /\ MatchesShape(reg[e].tmpl, path)
    /\ WellFormed(reg[e].tmpl)
    /\ \A e2 \in Routed \ {e} : ~MatchesShape(reg[e2].tmpl, path)
    /\ ~Shadowed(e, path)

-----------------------------------------------------------------------------
(* C2 *)

\* The request being served was matched to entry e.
Matched(e) == resp.op = "ServeHTTP" /\ resp.entry = e /\ e # NilEntry

\* The methods whose selector was applied to entry e.
SelectedMethods(e) == DOMAIN reg[e].methods

\* C2: a request matched to an entry on which a method selector was applied
\* has a handler of the entry invoked if and only if its method is one whose
\* selector was applied (all nine after All), and the handler invoked is
\* one registered for the entry with that method.
C2_MethodGating ==
    \A e \in DOMAIN entries :
        Matched(e) /\ SelectedMethods(e) # {} =>
          /\ resp.handler # NilHandler <=> resp.method \in SelectedMethods(e)
          /\ resp.handler # NilHandler =>
               resp.handler = reg[e].methods[resp.method].handler

\* A request with a named method that the matched entry does not support:
\* no handler was invoked.
C2_Witness ==
    \E e \in DOMAIN entries :
        /\ Matched(e)
        /\ SelectedMethods(e) # {}
        /\ resp.method \in NamedMethods \ SelectedMethods(e)
        /\ resp.handler = NilHandler

-----------------------------------------------------------------------------
(* C3 *)

\* C3: a request matched to an entry on which no method selector was ever
\* applied has the entry's handler invoked, whatever its method.
C3_MethodAgnostic ==
    \A e \in DOMAIN entries :
        Matched(e) /\ SelectedMethods(e) = {} =>
          /\ resp.handler # NilHandler
          /\ resp.handler = reg[e].handler

\* A request with a method outside the nine named ones, served by an entry
\* without selectors.
C3_Witness ==
    \E e \in DOMAIN entries :
        /\ Matched(e)
        /\ SelectedMethods(e) = {}
        /\ resp.method \notin NamedMethods
        /\ resp.handler = reg[e].handler

-----------------------------------------------------------------------------
(* C4 *)

\* The places of the tables that hold entry e.
SlotsOf(e) ==
    {<<m, pre, k>> \in UNION {{<<m, pre, k>> : k \in DOMAIN muxes[m].prefixes[pre]} :
                              <<m, pre>> \in UNION {{<<m, pre>> :
                                  pre \in DOMAIN muxes[m].prefixes} : m \in DOMAIN muxes}} :
        muxes[m].prefixes[pre][k] = e}

\* No duplicates accumulate: every entry ever allocated is the one entry of
\* one (router, prefix, key).
OneEntryPerKey == \A e \in DOMAIN entries : Cardinality(SlotsOf(e)) = 1

\* C4 as claimed: one entry per (prefix, key), and every request an entry
\* serves is served by the handler of the entry's latest registration.
C4_AsClaimed ==
    /\ OneEntryPerKey
    /\ \A e \in DOMAIN entries :
         Matched(e) /\ resp.handler # NilHandler => resp.handler = reg[e].handler

\* C4, amended: one entry per (prefix, key); a request the entry serves is
\* served by the handler of the latest registration when the entry is
\* method-agnostic or the selector of the request's method was applied
\* after that registration (a method whose selector was applied before it
\* keeps the earlier handler).
C4_Amended ==
    /\ OneEntryPerKey
    /\ \A e \in DOMAIN entries :
         /\ Matched(e)
         /\ \/ SelectedMethods(e) = {}
            \/ /\ resp.method \in SelectedMethods(e)
               /\ reg[e].methods[resp.method].gen = reg[e].gen
         => resp.handler = reg[e].handler

\* A request served by a re-registered entry with the handler of the latest
\* registration, the selector having been applied again after it.
C4_Witness ==
    \E e \in DOMAIN entries :
        /\ Matched(e)
        /\ reg[e].gen > 1
        /\ resp.method \in SelectedMethods(e)
        /\ reg[e].methods[resp.method].gen = reg[e].gen
        /\ \E x \in SelectedMethods(e) : reg[e].methods[x].handler # reg[e].handler
        /\ resp.handler = reg[e].handler

-----------------------------------------------------------------------------
(* C5 *)

\* C5: an entry serves each method whose selector was applied with the
\* handler that was current when the selector was applied, whatever was
\* registered for the pattern since.
C5_HandlerPerMethod ==
    \A e \in DOMAIN entries :
        \A x \in SelectedMethods(e) :
            /\ Cardinality(SlotsOf(e)) = 1
            /\ serveEntry(muxes[Root], entries[e], x).handler = reg[e].methods[x].handler
            /\ Matched(e) /\ resp.method = x =>
                 resp.handler = reg[e].methods[x].handler

\* The pattern was registered twice, method x selected after the first
\* registration and method y after the second, with different handlers, and
\* a request with method x was served by the first handler.
C5_Witness ==
    \E e \in DOMAIN entries :
        /\ Matched(e)
        /\ reg[e].gen = 2
        /\ \E x, y \in SelectedMethods(e) :
             /\ reg[e].methods[x].gen = 1
             /\ reg[e].methods[y].gen = 2
             /\ reg[e].methods[x].handler # reg[e].methods[y].handler
             /\ resp.method = x
             /\ resp.handler = reg[e].methods[x].handler

-----------------------------------------------------------------------------
(* C6 *)

\* A string with every run of consecutive separators collapsed to one.
RECURSIVE Collapse(_)
Collapse(s) ==
    IF Len(s) < 2 THEN s
    ELSE IF s[1] = Slash /\ s[2] = Slash THEN Collapse(Tail(s))
    ELSE <<s[1]>> \o Collapse(Tail(s))

\* What a dispatch selects: the entry, the handler and the parameters.
Selection(r) == [entry |-> r.entry, handler |-> r.handler, params |-> r.params]

\* The request paths and the patterns with duplicate separators.
Doubled(S) == {p \in S : Collapse(p) # p}

\* C6: dispatching a path selects the same entry, handler and parameters as
\* dispatching the path with its runs of separators collapsed; registering a
\* pattern is the same as registering its collapsed form; normalization
\* gives the collapsed form and is idempotent.  (The tables are compared
\* between requests: serving a request does not change them.)
C6_Normalization ==
    /\ Idle =>
         \A p \in Doubled(Paths), method \in RouteMethods :
           {Selection(r) : r \in ServeResults(Root, p, method)} =
             {Selection(r) : r \in ServeResults(Root, Collapse(p), method)}
    /\ resp.op = "ServeHTTP" /\ Collapse(resp.path) # resp.path =>
         Selection(resp) \in
           {Selection(r) : r \in ServeResults(Root, Collapse(resp.path), resp.method)}
    /\ Idle =>
         \A m \in Usable, p \in Doubled(Patterns), h \in RouteHandlers :
           HandleResult(m, p, h) = HandleResult(m, Collapse(p), h)
    /\ Idle =>
         \A p \in Paths \cup Patterns \cup GroupPrefixes :
           /\ replace(p) = Collapse(p)
           /\ replace(replace(p)) = replace(p)

\* A request whose path has a run of separators, served by an entry
\* registered with a pattern that had duplicate separators, with a
\* parameter taken from the path.
C6_Witness ==
    /\ Matched(resp.entry)
    /\ resp.path \in Doubled(Paths)
    /\ resp.handler # NilHandler
    /\ call.op = "Handle" /\ call.arg \in Doubled(Patterns) /\ call.entry # NilEntry
    /\ \E e \in Routed : e # resp.entry /\ DOMAIN resp.params # {}

-----------------------------------------------------------------------------
(* C7 *)

\* The routers and entries below router m are left as they are by a step.
GroupKept(m) ==
    /\ \A x \in Reach(m) : x \in DOMAIN muxes' /\ muxes'[x] = muxes[x]
    /\ entries' = entries

\* C7: the return of a Group call on a router that has a group at the
\* call's normalized prefix is a failure with ErrGroupExisted, after which
\* the router's groups are the same, and the group that was at the prefix
\* has the routers and entries it had.
C7_DuplicateGroup ==
    [][\A s \in setups :
         /\ s.group \in DOMAIN muxes[s.parent].groups
         /\ setups' = setups \ {s}
         => /\ call'.op = "Group"
            /\ call'.err = ErrGroupExisted
            /\ muxes'[s.parent].groups = muxes[s.parent].groups
            /\ GroupKept(muxes[s.parent].groups[s.group])]_vars

\* After a Group call has failed with ErrGroupExisted, a request is served
\* by a route of the group that was at the prefix.
C7_Witness ==
    /\ call.op = "Group"
    /\ call.err = ErrGroupExisted
    /\ call.mux = Root
    /\ \E e \in EntriesOf(muxes[Root].groups[call.arg]) :
         Matched(e) /\ resp.handler # NilHandler

-----------------------------------------------------------------------------
(* C8 *)

\* The entries registered inside groups.
GroupEntries == {e \in DOMAIN entries : SlotsOf(e) # {} /\ OwnerOf(e) # Root}

\* C8: a request matched to an entry registered inside a group has a path
\* that matches the shape of the group's prefix followed by the registered
\* pattern, and that begins with the group's prefix (with the prefix itself
\* when it is literal, with segments of its shape when it has parameters).
C8_GroupIsolation ==
    \A e \in GroupEntries :
        Matched(e) =>
          LET P == muxes[OwnerOf(e)].group IN
          /\ HasPrefix(reg[e].tmpl, P)
          /\ MatchesShape(reg[e].tmpl, ReqPath)
          /\ ~Contains(P, <<Colon>>) => HasPrefix(ReqPath, P)
          /\ \E n \in 0..Len(ReqPath) : MatchesShape(P, SubSeq(ReqPath, 1, n))

\* A request served by a parameterized route of a group, the root having a
\* route of its own.
C8_Witness ==
    \E e \in GroupEntries :
        /\ Matched(e)
        /\ resp.handler # NilHandler
        /\ DOMAIN resp.params # {}
        /\ EntriesOf(Root) # {}

-----------------------------------------------------------------------------
(* C9 *)

\* A pattern has a marker with no name: a segment with markers and nothing
\* else.
HasEmptyName(t) ==
    \E i \in 1..Len(Split(t, Slash)) :
        /\ Contains(Split(t, Slash)[i], <<Colon>>)
        /\ Trim(Split(t, Slash)[i], Colon) = Empty

\* C9 as claimed: a Handle call whose pattern has a marker with no name
\* fails with ErrParamsKeyEmpty, and no stored entry has a parameter with
\* the empty name.
C9_AsClaimed ==
    /\ call.op = "Handle" /\ HasEmptyName(replace(call.arg)) =>
         call.err = ErrParamsKeyEmpty
    /\ \A e \in DOMAIN entries : Empty \notin entries[e].params

-----------------------------------------------------------------------------
(* C10 *)

\* No routed entry has a template the path matches in shape.
Unmatched(path) == \A e \in Routed : ~MatchesShape(reg[e].tmpl, path)

\* C10: a request whose path matches no routed entry is answered by the
\* not-found handler of the root router when one is registered, else with
\* status 404 and a body that ends with the requested path; no entry and no
\* route handler is involved.
C10_NotFound ==
    resp.op = "ServeHTTP" /\ Unmatched(ReqPath) =>
      /\ resp.entry = NilEntry
      /\ ~resp.ran
      /\ IF muxes[Root].notFound # NilHandler
         THEN /\ resp.kind = "notFound"
              /\ resp.handler = muxes[Root].notFound
         ELSE /\ resp.kind = "error"
              /\ resp.handler = NilHandler
              /\ resp.status = StatusNotFound
              /\ resp.body = NotFoundText \o resp.path

\* A request that no route matches, in a table that has routes and groups,
\* answered by the registered not-found handler.
C10_Witness ==
    /\ resp.op = "ServeHTTP"
    /\ Unmatched(ReqPath)
    /\ Routed # {}
    /\ resp.kind = "notFound"
    /\ resp.handler \in NotFoundHandlers

-----------------------------------------------------------------------------
(* C11 *)

\* A connection of the reactor engine at rest: its peer has sent what it
\* sent and waits, every readiness event has been delivered, no callback
\* runs, and neither the connection nor its reactor is closed.
AtRest(c) ==
    /\ conns[c].engine = "reactor"
    /\ conns[c].open /\ ~conns[c].eof
    /\ ~reactors[conns[c].serve].closed
    /\ conns[c].events = 0
    /\ conns[c].serving = Free

\* C11 as claimed: a connection of the reactor engine that is at rest has
\* got one response for each request it received, however the requests were
\* distributed over readiness events.
C11_AsClaimed ==
    \A c \in DOMAIN conns :
      AtRest(c) => Len(conns[c].responses) = conns[c].arrived

-----------------------------------------------------------------------------
(* C12 *)

\* The responses written on connection c are those to its requests 1, 2,
\* ..., in this order.
InOrder(c) ==
    conns[c].responses = [i \in 1..Len(conns[c].responses) |-> i]

\* C12: on every connection of either engine the responses are written in
\* the order in which their requests were decoded, and at most one decoded
\* request is without its response: the response to request i is written
\* before request i+1 is decoded.
C12_Ordering ==
    \A c \in DOMAIN conns :
      /\ InOrder(c)
      /\ conns[c].decoded - Len(conns[c].responses) \in {0, 1}

\* A connection of the reactor engine that has answered two requests, each
\* decoded by a callback of its own.
C12_Witness ==
    \E c \in DOMAIN conns :
      /\ conns[c].engine = "reactor"
      /\ Len(conns[c].responses) = 2
      /\ Cardinality({b \in DOMAIN cbs : cbs[b].conn = c /\ cbs[b].pc = "done"}) = 2

-----------------------------------------------------------------------------
(* C13 *)

\* Serve call s has registered its listener or its reactor, and a Close
\* call has taken the lock since.
CloseAfterRegistration(s) ==
    /\ s \in DOMAIN serves
    /\ \E k \in DOMAIN closes : s \in closes[k].found

\* Serve call s has returned an error.
ReturnedError(s) ==
    /\ s \in DOMAIN serves
    /\ serves[s].pc = "returned"
    /\ serves[s].err # ErrNone

\* C13: in each of the four modes, a Serve call that has registered its
\* listener or its reactor returns an error some time after a Close that
\* follows the registration.
C13_CloseStopsServe ==
    \A s \in 1..MaxServerOps : CloseAfterRegistration(s) ~> ReturnedError(s)

\* A Serve call of the reactor engine with the fast decoder that was closed
\* after it had registered, before it entered the reactor's loop, and has
\* returned the error.
C13_Witness ==
    \E s \in DOMAIN serves :
      /\ serves[s].poll /\ serves[s].fast
      /\ CloseAfterRegistration(s)
      /\ ReturnedError(s)
      /\ conns = <<>>

-----------------------------------------------------------------------------
(* C14 *)

\* C14 as claimed: no request is dispatched, on any connection, after a
\* Close call has returned.
C14_AsClaimed == \A c \in DOMAIN conns : ~conns[c].late

\* C14, amended: a Serve call whose listener or reactor a Close call found
\* in the registry accepts no connection after that Close has returned, so
\* that the requests dispatched after the return are those of connections
\* accepted before it.
C14_Amended == \A c \in DOMAIN conns : ~conns[c].afterStop

\* A Close call has stopped a Serve call and returned, and a connection
\* that Serve call accepted before has had a request dispatched since.
C14_Witness ==
    \E c \in DOMAIN conns :
      /\ serves[conns[c].serve].stopped
      /\ conns[c].late
      /\ ~conns[c].afterStop

-----------------------------------------------------------------------------
(* C15 *)

\* Close call k returns in this step.
Returns(k) == closes[k].pc = "return" /\ closes'[k].pc = "returned"

\* The listeners and reactors that existed when Close call k began are
\* closed or open as they were then.
NothingClosed(k) ==
    /\ \A l \in DOMAIN closes[k].before.lns : lns'[l] = closes[k].before.lns[l]
    /\ \A r \in DOMAIN closes[k].before.reactors :
         reactors'[r] = closes[k].before.reactors[r]

\* C15: when a Close call returns, every listener and every reactor that
\* was in the registry when it began is closed, both registries are empty,
\* the Handler is nil and the result is nil; and a Close call after another
\* one that finds nothing in the registry has closed nothing and left the
\* server as it found it.
C15_Close ==
    [][\A k \in DOMAIN closes :
         Returns(k) =>
           /\ \A s \in closes[k].found :
                IF serves[s].poll THEN reactors'[s].closed ELSE lns'[s].closed
           /\ rum'.listeners = <<>> /\ rum'.pollers = <<>>
           /\ rum'.Handler = NilHandler
           /\ closes'[k].err = ErrNone
           /\ k > 1 /\ closes[k].found = {} =>
                /\ NothingClosed(k)
                /\ rum' = closes[k].before.rum]_vars

\* A Close call that stopped a Serve call, and a second one that found the
\* registry empty, have both returned.
C15_Witness ==
    /\ Len(closes) = 2
    /\ closes[1].found # {} /\ closes[1].pc = "returned"
    /\ closes[2].found = {} /\ closes[2].pc = "returned"

-----------------------------------------------------------------------------
(* C16 *)

\* Close never waits for a connection: it can take the lock whenever the
\* lock is free, and a Close call that holds the lock can take its next
\* step, whatever the connections and their handlers are doing.
CloseNeverWaits ==
    /\ mut = Free => ENABLED CloseBegin
    /\ \A k \in DOMAIN closes : closes[k].pc # "returned" => ENABLED Close(k)

\* A connection of the blocking engine whose task has a request to decode
\* can decode it, whether or not Close was called.
KeepsServing ==
    \A c \in DOMAIN conns :
      /\ conns[c].engine = "blocking"
      /\ conns[c].pc = "read" /\ conns[c].pending > 0
      => conns[c].open /\ ENABLED ConnDecode(c)

\* A step of a Close call leaves every connection and every callback as it
\* is, and a connection of the blocking engine is closed only by its own
\* task, when its decoding fails.
OnlyOwnDecodeEnds ==
    /\ closes' # closes => conns' = conns /\ cbs' = cbs
    /\ \A c \in DOMAIN conns :
         /\ conns[c].engine = "blocking"
         /\ conns[c].open /\ ~conns'[c].open
         => conns[c].pc = "read" /\ conns[c].pending = 0 /\ conns[c].eof

\* C16: Close does not wait for a request in flight and does not close or
\* change a connection the blocking engine has accepted; the connection
\* goes on serving requests until its own decoding fails.
C16_Abrupt ==
    /\ [](CloseNeverWaits /\ KeepsServing)
    /\ [][OnlyOwnDecodeEnds]_vars

\* A Close call has stopped the Serve call of a connection and returned
\* while the handler of a request decoded before runs on the connection,
\* and the next request of the connection waits to be served.
C16_Witness ==
    \E c \in DOMAIN conns :
      /\ conns[c].engine = "blocking"
      /\ serves[conns[c].serve].stopped
      /\ conns[c].pc = "handler" /\ ~conns[c].late
      /\ conns[c].pending > 0

-----------------------------------------------------------------------------
(* C17 *)

\* C17 as claimed: every request decoded on a connection is dispatched to
\* the handler the server had when the Serve call of the connection
\* started: the external Handler if one was set, else the router.
C17_AsClaimed ==
    \A c \in DOMAIN conns :
      conns[c].targets \subseteq {handlerOf(serves[conns[c].serve].atStart)}

-----------------------------------------------------------------------------
(* C18 *)

\* C18 as claimed, with the router that dispatches read as the router whose
\* ServeHTTP serves the request: when an entry matched and accepted the
\* method, the middleware run is the sequence of the handlers given to Use
\* on that router, each once and in the order of the calls, and the
\* entry's handler is invoked; else no middleware runs.
C18_AsClaimed ==
    resp.op = "ServeHTTP" =>
      IF resp.kind = "entry" /\ resp.ran
      THEN /\ resp.mws = muxes[resp.mux].used
           /\ resp.handler # NilHandler
      ELSE resp.mws = <<>>

-----------------------------------------------------------------------------
(* C19 *)

\* C19 as claimed: a request served by an entry of a group runs the
\* middleware the group's parent had when the group was created, whatever
\* was added to the parent since.
C19_AsClaimed ==
    /\ resp.op = "ServeHTTP"
    /\ resp.kind = "entry" /\ resp.ran
    /\ OwnerOf(resp.entry) # Root
    => resp.mws = muxes[OwnerOf(resp.entry)].inherited

-----------------------------------------------------------------------------
(* C20 *)

\* Sequence s is the beginning of sequence t.
IsPrefix(s, t) == Len(s) <= Len(t) /\ SubSeq(t, 1, Len(s)) = s

\* C20 as claimed: no step removes or replaces an element of a router's
\* middleware sequence: the sequence before the step is the beginning of
\* the sequence after it.
C20_AsClaimed ==
    [][\A m \in DOMAIN muxes :
         IsPrefix(middleware(muxes[m]), middleware(muxes[m])')]_vars

-----------------------------------------------------------------------------
(* C21 *)

\* The entries of the root's own table that the path matches: a well-formed
\* template of the path's shape, each parameter taking a non-empty segment.
RootMatches(path) ==
    {e \in EntriesOf(Root) :
        /\ WellFormed(reg[e].tmpl)
        /\ MatchesShape(reg[e].tmpl, path)
        /\ NonEmptyValues(reg[e].tmpl, path)}

\* C21 as claimed: whenever a request has been served, if the root's own
\* table has an entry matching the path then an entry of the root's table
\* was served (no group's entry, and not the not-found answer); an entry of
\* a group is served only when the root's table has no match; and when no
\* entry is served the answer is the root's not-found handler or the 404.
C21_AsClaimed ==
    resp.op = "ServeHTTP" =>
      /\ RootMatches(ReqPath) # {} => resp.entry \in EntriesOf(Root)
      /\ resp.entry = NilEntry =>
           /\ resp.kind \in {"notFound", "error"}
           /\ resp.kind = "notFound" => resp.handler = muxes[Root].notFound
           /\ resp.kind = "error" => muxes[Root].notFound = NilHandler

-----------------------------------------------------------------------------
(* C22 *)

\* The callbacks of connection c that are between the start of the decoding
\* of a request and the end of the flush of its response.
InSection(c) ==
    {b \in DOMAIN cbs : cbs[b].conn = c /\ cbs[b].pc \in {"read", "handler"}}

\* C22: in the reactor engine, under every interleaving of the callbacks of
\* the workers, at most one callback of a connection is between the start
\* of the decoding and the end of the flush, and that callback holds the
\* lock of the connection's context.
C22_MutualExclusion ==
    \A c \in DOMAIN conns :
      /\ Cardinality(InSection(c)) <= 1
      /\ \A b \in InSection(c) : conns[c].serving = b

\* A callback is running the handler of a request while a second readiness
\* event of the same connection, with a request of its own, waits to be
\* served.
C22_Witness ==
    \E c \in DOMAIN conns :
      /\ \E b \in InSection(c) : cbs[b].pc = "handler"
      /\ conns[c].events > 0
      /\ conns[c].pending > 0

-----------------------------------------------------------------------------
(* C23 *)

\* The task of blocking connection c, or callback b of the reactor engine,
\* fails to decode a request in this step.
ConnFails(c) == conns[c].pc = "read" /\ conns'[c].pc = "done"
CbFails(b) == cbs[b].pc = "read" /\ cbs'[b].pc = "failed"

\* Nothing is dispatched on connection c in this step.
NoDispatch(c) ==
    /\ conns'[c].decoded = conns[c].decoded
    /\ conns'[c].targets = conns[c].targets
    /\ conns'[c].responses = conns[c].responses

\* C23: a failure to decode a request ends the processing of its connection
\* in both engines, with no retry and no dispatch for the failed request. In
\* the blocking engine the task leaves its loop and the connection is
\* closed, and nothing is decoded on it afterwards.  In the reactor engine
\* the callback returns the failure having released the lock, nothing is
\* decoded on the connection afterwards, and no callback that has returned
\* holds the lock of its connection.
C23_DecodeFailure ==
    [][/\ \A c \in DOMAIN conns :
            /\ ConnFails(c) => NoDispatch(c) /\ ~conns'[c].open
            /\ conns[c].pc = "done" => conns'[c].pc = "done" /\ NoDispatch(c)
            /\ ~conns[c].open => NoDispatch(c)
       /\ \A b \in DOMAIN cbs :
            /\ CbFails(b) =>
                 /\ NoDispatch(cbs[b].conn)
                 /\ ~conns'[cbs[b].conn].open
                 /\ conns'[cbs[b].conn].serving = Free
            /\ cbs[b].pc = "failed" => cbs'[b] = cbs[b]
       /\ \A b \in DOMAIN cbs' :
            cbs'[b].pc \in {"done", "failed"} => conns'[cbs'[b].conn].serving # b]_vars

\* A callback of a connection that has answered a request has failed to
\* decode at the end of the stream and returned, the lock being free.
C23_Witness ==
    \E b \in DOMAIN cbs :
      /\ cbs[b].pc = "failed"
      /\ Len(conns[cbs[b].conn].responses) > 0
      /\ conns[cbs[b].conn].serving = Free

-----------------------------------------------------------------------------
(* C24 *)

\* Serve call s is in its accept loop or in the reactor's loop, or about to
\* enter it.
InLoop(s) == serves[s].pc \in {"accept", "enter", "serving"}

\* The listener or the reactor of Serve call s is closed.
Stopped(s) == IF serves[s].poll THEN reactors[s].closed ELSE lns[s].closed

\* C24: a Serve call that is in its loop, or about to enter it, has added
\* its listener or its reactor to the registry beforehand: it is in the
\* registry, or a Close call that took the lock after the registration found
\* it there; and such a Close call, once it is past its closing steps, has
\* closed it, whether or not a connection has arrived.
C24_Registered ==
    \A s \in DOMAIN serves :
      InLoop(s) =>
        /\ s \in InRegistry \/ \E k \in DOMAIN closes : s \in closes[k].found
        /\ \A k \in DOMAIN closes :
             s \in closes[k].found /\ closes[k].pc \in {"detach", "return", "returned"}
             => Stopped(s)

\* A Serve call of the blocking engine waits in Accept, no connection has
\* arrived, and a Close call that found its listener has closed it.
C24_Witness ==
    \E s \in DOMAIN serves :
      /\ serves[s].pc = "accept"
      /\ conns = <<>>
      /\ \E k \in DOMAIN closes : s \in closes[k].found /\ closes[k].pc = "returned"
      /\ lns[s].closed

-----------------------------------------------------------------------------
(* C25 *)

\* Task t holds the read lock or the write lock of a router.
HoldsLock(t) ==
    \E m \in LockRouters : t \in muts[m].readers \/ muts[m].writer = t

\* Task t is a dispatch past its lookup: it is serving the entry (the
\* middleware and the handler run) or answering not-found.
Serving(t) ==
    /\ tasks[t].op = "ServeHTTP"
    /\ tasks[t].pc \in {"serveEntry", "middleware", "notFound", "handler"}

\* C25: a dispatching task holds the read lock of the router only during
\* the lookup of the entry: no middleware and no handler runs while the task
\* holds it.  Hence a handler that never returns does not keep a concurrent
\* Handle, Use, NotFound, Group, Params or ServeHTTP call from completing:
\* whenever the only unfinished tasks beside a call are dispatches whose
\* handlers are running, the call can take its next step.
C25_LockOnlyForLookup ==
    /\ \A t \in DOMAIN tasks : Serving(t) => ~HoldsLock(t)
    /\ \A t \in DOMAIN tasks :
         /\ tasks[t].pc # "done"
         /\ \A u \in DOMAIN tasks \ {t} : tasks[u].pc \in {"handler", "done"}
         => ENABLED TaskStep(t)

\* The handler of a request is running, and a Handle call and a second
\* ServeHTTP call on the same router, both made after the request, have
\* completed.
C25_Witness ==
    \E t, u, v \in DOMAIN tasks :
      /\ t < u /\ t < v
      /\ tasks[t].op = "ServeHTTP" /\ tasks[t].pc = "handler"
      /\ tasks[u].op = "Handle" /\ tasks[u].mux = tasks[t].mux /\ tasks[u].pc = "done"
      /\ tasks[v].op = "ServeHTTP" /\ tasks[v].pc = "done"

-----------------------------------------------------------------------------
(* C26 *)

\* Task t holds the lock that access a needs: the write lock of the router
\* for a write, at least its read lock for a read.
Guarded(t, a) ==
    \/ muts[a.mux].writer = t
    \/ ~a.write /\ t \in muts[a.mux].readers

\* Two tasks are at the same field of the same router, one of them writing.
Race ==
    \E t, u \in DOMAIN tasks :
      /\ t # u
      /\ \E a \in Accesses(t), b \in Accesses(u) :
           a.mux = b.mux /\ a.field = b.field /\ (a.write \/ b.write)

\* C26 as claimed: every access to the prefix buckets, the group
\* collection, the middleware sequence and the not-found handler of a
\* router is made with that router's lock held, the write lock by a
\* registration and at least the read lock by a dispatch; so no task reads
\* one of the four while another task writes it.
C26_AsClaimed ==
    /\ \A t \in DOMAIN tasks : \A a \in Accesses(t) : Guarded(t, a)
    /\ ~Race

-----------------------------------------------------------------------------
(* C27 *)

\* A string with two consecutive separators.
HasDoubleSlash(s) == Contains(s, <<Slash, Slash>>)

\* C27 as claimed: after any Handle and Group calls, on the root and on
\* group routers, no literal prefix and no shape key stored in a table has
\* two consecutive separators, and the path a request is matched with has
\* none either.
C27_AsClaimed ==
    /\ \A m \in DOMAIN muxes :
         \A pre \in DOMAIN muxes[m].prefixes :
           /\ ~HasDoubleSlash(pre)
           /\ \A k \in DOMAIN muxes[m].prefixes[pre] : ~HasDoubleSlash(k)
    /\ resp.op = "ServeHTTP" => ~HasDoubleSlash(ReqPath)

-----------------------------------------------------------------------------
(* C28 *)

\* C28 as claimed, read in its favour (a well-formed template with distinct
\* names, each parameter taking a non-empty segment): when the handler of
\* the matched entry runs, the parameters it gets from the router that owns
\* the entry are those of the entry's own template, each of its names with
\* the path segment at the position of the name, also when several patterns
\* match the path.
C28_AsClaimed ==
    \A e \in DOMAIN entries :
      /\ Matched(e)
      /\ resp.handler # NilHandler
      /\ WellFormed(reg[e].tmpl)
      /\ DistinctNames(reg[e].tmpl)
      /\ MatchesShape(reg[e].tmpl, ReqPath)
      /\ NonEmptyValues(reg[e].tmpl, ReqPath)
      => resp.params = ExpectedParams(reg[e].tmpl, ReqPath)

-----------------------------------------------------------------------------
(* C29 *)

\* The router in whose group collection router c is stored.
ParentOf(c) ==
    CHOOSE m \in DOMAIN muxes :
        \E g \in DOMAIN muxes[m].groups : muxes[m].groups[g] = c

\* The prefixes of the groups that enclose router m, outermost first, m's
\* own included.
RECURSIVE EnclosingPrefix(_)
EnclosingPrefix(m) ==
    IF m = Root THEN Empty ELSE EnclosingPrefix(ParentOf(m)) \o muxes[m].group

\* The template a route has when the prefixes of all the groups that
\* enclose it are put before its pattern; the template Handle parsed has
\* the prefix of the innermost group only.
NestedTemplate(e) ==
    IF OwnerOf(e) = Root THEN reg[e].tmpl
    ELSE EnclosingPrefix(ParentOf(OwnerOf(e))) \o reg[e].tmpl

\* The routes of groups defined within the setup of another group.
NestedEntries ==
    {e \in Routed : OwnerOf(e) # Root /\ ParentOf(OwnerOf(e)) # Root}

\* C29 as claimed: a route with pattern q of a group with prefix P2 that is
\* defined within the setup of a group with prefix P1 is reached by the
\* paths that match P1 P2 q: a request served by such a route has a path of
\* that shape, and a request whose path has that shape, and the shape of no
\* other route, is served by it.
C29_AsClaimed ==
    resp.op = "ServeHTTP" =>
      \A e \in NestedEntries :
        /\ resp.entry = e => MatchesShape(NestedTemplate(e), ReqPath)
        /\ /\ WellFormed(NestedTemplate(e))
           /\ ~HasDoubleSlash(NestedTemplate(e))
           /\ MatchesShape(NestedTemplate(e), ReqPath)
           /\ NonEmptyValues(NestedTemplate(e), ReqPath)
           /\ \A e2 \in Routed \ {e} : ~MatchesShape(NestedTemplate(e2), ReqPath)
           => resp.entry = e

-----------------------------------------------------------------------------
(* C30 *)

\* The routers that running setup procedures are populating.
InSetup == UNION {Reach(s.child) : s \in setups}

\* The Group calls that return in this step.
Ending == setups \ setups'

\* C30: a group becomes visible to the dispatch in one step, the return of
\* a Group call that succeeds.  The group collection of a router changes
\* only in that step, by the new router stored under its prefix; a request
\* served while a setup procedure is running is never served by a route of
\* the group being set up; and when a Group call fails with ErrGroupExisted
\* no group collection changes and no route of the routers its setup
\* populated is among the routes a dispatch can find.
C30_GroupAtomic ==
    [][/\ \A m \in DOMAIN muxes :
            muxes'[m].groups # muxes[m].groups =>
              \E s \in Ending :
                /\ s.parent = m
                /\ call'.op = "Group" /\ call'.err = ErrNone
                /\ muxes'[m].groups = MapPut(muxes[m].groups, s.group, s.child)
       /\ resp'.op = "ServeHTTP" /\ resp'.entry # NilEntry =>
            OwnerOf(resp'.entry) \notin InSetup
       /\ \A s \in Ending :
            call'.err = ErrGroupExisted =>
              /\ \A m \in DOMAIN muxes : muxes'[m].groups = muxes[m].groups
              /\ \A m \in Reach(s.child) : EntriesOf(m) \cap Routed' = {}]_vars

\* A Group call whose setup registered a route has failed with
\* ErrGroupExisted, and a request with the path of that route has been
\* answered not-found since.
C30_Witness ==
    /\ call.op = "Group" /\ call.err = ErrGroupExisted
    /\ resp.op = "ServeHTTP"
    /\ resp.entry = NilEntry
    /\ \E e \in DOMAIN entries \ Routed : MatchesShape(reg[e].tmpl, ReqPath)

-----------------------------------------------------------------------------
(* C31 *)

\* The routing state of router m: its prefix buckets, its group collection,
\* its middleware sequence and its not-found handler.
RoutingState(m) ==
    [prefixes |-> muxes[m].prefixes,
     groups |-> muxes[m].groups,
     middlewares |-> middleware(muxes[m]),
     notFound |-> muxes[m].notFound]

\* A Handle call fails in this step with ErrParamsKeyEmpty.
HandleFails == call'.op = "Handle" /\ call'.err = ErrParamsKeyEmpty /\ nops' # nops

\* The Group call with setup s is going to fail with ErrGroupExisted: its
\* prefix has a group in the router it was called on, whose lock the call
\* holds until it returns.
Failing(s) == s.group \in DOMAIN muxes[s.parent].groups

\* C31 as claimed: when a Handle call fails with ErrParamsKeyEmpty the
\* routing state of its router is as it was and its lock is free; from the
\* start of a Group call that fails with ErrGroupExisted to its return no
\* step changes the routing state of the router it was called on, so that
\* the state is then exactly as before the call, and the return releases
\* the router's lock.
C31_AsClaimed ==
    [][/\ \A m \in DOMAIN muxes :
            HandleFails /\ call'.mux = m =>
              /\ RoutingState(m)' = RoutingState(m)
              /\ m \notin Locked'
       /\ \A s \in setups :
            Failing(s) =>
              /\ RoutingState(s.parent)' = RoutingState(s.parent)
              /\ s \notin setups' =>
                   /\ call'.op = "Group" /\ call'.err = ErrGroupExisted
                   /\ s.parent \notin Locked']_vars

=============================================================================
